---- MODULE Spec2Model ----
\* HubSpot CRM adapter (src/src/client.ts, class CrmClientImpl): the shared
\* request primitive, the operations built on it, and a mock backend that
\* answers each fetch.
EXTENDS Integers, Sequences, FiniteSets, TLC

VARIABLES credentials, pc, op, input, calls, flying, pending, primary, net, result, backend,
          earlier, worker

vars == <<credentials, pc, op, input, calls, flying, pending, primary, net, result, backend,
          earlier, worker>>

\* ---------------------------------------------------------------------------
\* JavaScript values
\* ---------------------------------------------------------------------------
Undefined == [t |-> "undefined"]
Null == [t |-> "null"]
NaN == [t |-> "NaN"]
Str(s) == [t |-> "string", s |-> s]
Num(n) == [t |-> "number", n |-> n]
Bool(b) == [t |-> "boolean", b |-> b]

\* JavaScript truthiness, as used by `if (x)`, `x || y`, `x ? a : b`.
Truthy(v) ==
  CASE v.t = "undefined" -> FALSE
    [] v.t = "null" -> FALSE
    [] v.t = "NaN" -> FALSE
    [] v.t = "string" -> v.s # ""
    [] v.t = "number" -> v.n # 0
    [] v.t = "boolean" -> v.b
    [] OTHER -> TRUE

\* a || b
JsOr(a, b) == IF Truthy(a) THEN a ELSE b

\* String(value) for the values the model passes around.
String(v) ==
  CASE v.t = "string" -> v.s
    [] v.t = "number" -> ToString(v.n)
    [] v.t = "boolean" -> (IF v.b THEN "true" ELSE "false")
    [] v.t = "NaN" -> "NaN"
    [] v.t = "null" -> "null"
    [] OTHER -> "undefined"

\* ---------------------------------------------------------------------------
\* Bounds and input alphabets
\* ---------------------------------------------------------------------------
MaxHeaderLen == 2
MaxContacts == 2

\* Characters a Retry-After header value is built from.
HeaderChars == {"0", "3", "a", " ", "-"}
Digits == {"0", "1", "2", "3", "4", "5", "6", "7", "8", "9"}

RECURSIVE SeqsUpTo(_, _)
SeqsUpTo(S, n) ==
  IF n = 0 THEN {<<>>}
  ELSE LET shorter == SeqsUpTo(S, n - 1)
       IN shorter \cup {Append(s, c) : s \in shorter, c \in S}

\* response.headers.get('Retry-After'): null when absent, else the text.
HeaderValues == {Null} \cup {[t |-> "header", chars |-> s] : s \in SeqsUpTo(HeaderChars, MaxHeaderLen)}

Statuses == {200, 201, 204, 304, 401, 403, 404, 429, 500}

\* Response bodies: text that is not JSON, or a JSON object; `id` is the id the
\* backend assigned, `message` and `error` the fields the error path reads.
NotJson == [json |-> FALSE]
JsonBodies ==
  {[json |-> TRUE, message |-> m, error |-> e, id |-> "101"] :
     m \in {Undefined, Str(""), Str("boom")}, e \in {Undefined, Str("bad")}}
Bodies == {NotJson} \cup JsonBodies
Entity == [json |-> TRUE, message |-> Undefined, error |-> Undefined, id |-> "101"]

Responses == [status : Statuses, retryAfter : HeaderValues, body : Bodies]

\* Credentials a client can be constructed with: nothing, empty strings, an API
\* key, an access token, both, and a key with a base-URL override.
Creds(key, token, url) == [apiKey |-> key, accessToken |-> token, baseUrl |-> url]
TenantCredentials ==
  {Creds(Undefined, Undefined, Undefined),
   Creds(Str(""), Str(""), Undefined),
   Creds(Str("secret"), Undefined, Undefined),
   Creds(Str(""), Str("token"), Undefined),
   Creds(Str("secret"), Str("token"), Undefined),
   Creds(Str("secret"), Undefined, Str("https://tenant.example"))}

API_BASE_URL == "https://api.hubapi.com"

\* constructor: this.baseUrl = credentials.baseUrl || API_BASE_URL
baseUrl(creds) == String(JsOr(creds.baseUrl, Str(API_BASE_URL)))

\* ---------------------------------------------------------------------------
\* parseInt(text, 10)
\* ---------------------------------------------------------------------------
DigitVal(c) ==
  CASE c = "0" -> 0 [] c = "1" -> 1 [] c = "2" -> 2 [] c = "3" -> 3 [] c = "4" -> 4
    [] c = "5" -> 5 [] c = "6" -> 6 [] c = "7" -> 7 [] c = "8" -> 8 [] c = "9" -> 9

RECURSIVE SkipWhitespace(_)
SkipWhitespace(s) ==
  IF s # <<>> /\ Head(s) = " " THEN SkipWhitespace(Tail(s)) ELSE s

RECURSIVE DigitPrefix(_)
DigitPrefix(s) ==
  IF s # <<>> /\ Head(s) \in Digits THEN <<Head(s)>> \o DigitPrefix(Tail(s)) ELSE <<>>

RECURSIVE DigitsValue(_, _)
DigitsValue(s, acc) ==
  IF s = <<>> THEN acc ELSE DigitsValue(Tail(s), acc * 10 + DigitVal(Head(s)))

\* Skips leading white space, takes an optional sign, then the longest run of
\* decimal digits; NaN when there is no digit.
parseInt(s) ==
  LET t == SkipWhitespace(s)
      signed == t # <<>> /\ Head(t) \in {"-", "+"}
      negative == t # <<>> /\ Head(t) = "-"
      d == DigitPrefix(IF signed THEN Tail(t) ELSE t)
  IN IF d = <<>> THEN NaN
     ELSE Num(IF negative THEN 0 - DigitsValue(d, 0) ELSE DigitsValue(d, 0))

\* ---------------------------------------------------------------------------
\* Request primitive
\* ---------------------------------------------------------------------------
NoHeaders == [h \in {} |-> ""]
NoBody == [absent |-> TRUE]

\* The error classes of utils/errors: each is an Error with the given message
\* that carries what its constructor was given.
AuthenticationError(message) == [name |-> "AuthenticationError", message |-> message]
RateLimitError(message, retryAfterSeconds) ==
  [name |-> "RateLimitError", message |-> message, retryAfterSeconds |-> retryAfterSeconds]
CrmApiError(message, statusCode) ==
  [name |-> "CrmApiError", message |-> message, statusCode |-> statusCode]

\* getAuthHeaders without the final throw: it sends whatever it has.
getAuthHeadersNoThrow(creds) ==
  [threw |-> FALSE,
   headers |-> ("Authorization" :> ("Bearer " \o String(JsOr(creds.accessToken, creds.apiKey)))
                @@ "Content-Type" :> "application/json")]

\* The two branches in the other order: API key first, then access token.
getAuthHeadersKeyFirst(creds) ==
  IF Truthy(creds.apiKey)
  THEN [threw |-> FALSE,
        headers |-> ("Authorization" :> ("Bearer " \o String(creds.apiKey))
                     @@ "Content-Type" :> "application/json")]
  ELSE IF Truthy(creds.accessToken)
  THEN [threw |-> FALSE,
        headers |-> ("Authorization" :> ("Bearer " \o String(creds.accessToken))
                     @@ "Content-Type" :> "application/json")]
  ELSE [threw |-> TRUE,
        error |-> AuthenticationError(
                    "No credentials provided. Include X-CRM-API-Key or X-CRM-Access-Token header.")]

\* getAuthHeaders: access token first, then API key, else throw.
getAuthHeaders(creds) ==
  IF Truthy(creds.accessToken)
  THEN [threw |-> FALSE,
        headers |-> ("Authorization" :> ("Bearer " \o String(creds.accessToken))
                     @@ "Content-Type" :> "application/json")]
  ELSE IF Truthy(creds.apiKey)
  THEN [threw |-> FALSE,
        headers |-> ("Authorization" :> ("Bearer " \o String(creds.apiKey))
                     @@ "Content-Type" :> "application/json")]
  ELSE [threw |-> TRUE,
        error |-> AuthenticationError(
                    "No credentials provided. Include X-CRM-API-Key or X-CRM-Access-Token header.")]

\* The argument list of fetch in request(): the URL and the options with the
\* merged headers. Building it calls getAuthHeaders, which may throw.
fetchArgs(creds, endpoint, options) ==
  LET auth == getAuthHeaders(creds)
  IN IF auth.threw THEN auth
     ELSE [threw |-> FALSE,
           call |-> [url |-> baseUrl(creds) \o endpoint,
                     method |-> options.method,
                     body |-> options.body,
                     headers |-> options.headers @@ auth.headers]]

\* The delay taken to be 60 whatever the header says.
retryAfterSecondsFixed(retryAfter) == Num(60)

\* retryAfter ? parseInt(retryAfter, 10) : 60, for the value of
\* response.headers.get('Retry-After').
retryAfterSeconds(retryAfter) ==
  IF retryAfter.t = "header" /\ retryAfter.chars # <<>>
  THEN parseInt(retryAfter.chars)
  ELSE Num(60)

\* request() testing response.ok before the 429 and 401/403 branches.
requestOutcomeOkFirst(response) ==
  IF ~(response.status >= 200 /\ response.status <= 299)
  THEN [ok |-> FALSE,
        error |-> CrmApiError("API error: " \o ToString(response.status), response.status)]
  ELSE IF response.status = 204
  THEN [ok |-> TRUE, value |-> Undefined]
  ELSE IF response.body.json
  THEN [ok |-> TRUE, value |-> response.body]
  ELSE [ok |-> FALSE,
        error |-> [name |-> "SyntaxError", message |-> "Unexpected token in JSON"]]

\* The part of request() after `await fetch(...)` has produced a response.
requestOutcome(response) ==
  IF response.status = 429
  THEN [ok |-> FALSE,
        error |-> RateLimitError("Rate limit exceeded", retryAfterSeconds(response.retryAfter))]
  ELSE IF response.status = 401 \/ response.status = 403
  THEN [ok |-> FALSE,
        error |-> AuthenticationError("Authentication failed. Check your API credentials.")]
  ELSE IF ~(response.status >= 200 /\ response.status <= 299)
  THEN [ok |-> FALSE,
        error |-> CrmApiError(
                    LET default == Str("API error: " \o ToString(response.status))
                    IN IF response.body.json
                       THEN String(JsOr(response.body.message, JsOr(response.body.error, default)))
                       ELSE String(default),
                    response.status)]
  ELSE IF response.status = 204
  THEN [ok |-> TRUE, value |-> Undefined]
  ELSE IF response.body.json
  THEN [ok |-> TRUE, value |-> response.body]
  ELSE [ok |-> FALSE,
        error |-> [name |-> "SyntaxError", message |-> "Unexpected token in JSON"]]

\* What the transport hands back: a response, or a rejected fetch.
NetworkFailure == [failed |-> TRUE]
Delivered(response) == [failed |-> FALSE, response |-> response]

fetchOutcome(answer) ==
  IF answer.failed
  THEN [ok |-> FALSE, error |-> [name |-> "TypeError", message |-> "fetch failed"]]
  ELSE requestOutcome(answer.response)

\* request(endpoint, options) as a function of the credentials and of what the
\* transport answers: the fetch it issued (if any) and its outcome.
request(creds, endpoint, options, answer) ==
  LET args == fetchArgs(creds, endpoint, options)
  IN IF args.threw
     THEN [fetched |-> <<>>, outcome |-> [ok |-> FALSE, error |-> args.error]]
     ELSE [fetched |-> <<args.call>>, outcome |-> fetchOutcome(answer)]

\* ---------------------------------------------------------------------------
\* Operations of CrmClientImpl
\* ---------------------------------------------------------------------------
\* Every public method with the method and path of its first request (path
\* parameters left as in the source) and whether it reads the value request()
\* returned (`const response = await this.request(...)` followed by a use).
OpTable ==
  "testConnection" :> [method |-> "GET", path |-> "/crm/v3/objects/contacts?limit=1", uses |-> FALSE] @@
  "listContacts" :> [method |-> "GET", path |-> "/crm/v3/objects/contacts?${queryParams}", uses |-> TRUE] @@
  "getContact" :> [method |-> "GET", path |-> "/crm/v3/objects/contacts/${id}?properties=${CONTACT_PROPERTIES}", uses |-> TRUE] @@
  "createContact" :> [method |-> "POST", path |-> "/crm/v3/objects/contacts", uses |-> TRUE] @@
  "updateContact" :> [method |-> "PATCH", path |-> "/crm/v3/objects/contacts/${id}", uses |-> TRUE] @@
  "deleteContact" :> [method |-> "DELETE", path |-> "/crm/v3/objects/contacts/${id}", uses |-> FALSE] @@
  "searchContacts" :> [method |-> "POST", path |-> "/crm/v3/objects/contacts/search", uses |-> TRUE] @@
  "listCompanies" :> [method |-> "GET", path |-> "/crm/v3/objects/companies?${queryParams}", uses |-> TRUE] @@
  "getCompany" :> [method |-> "GET", path |-> "/crm/v3/objects/companies/${id}?properties=${COMPANY_PROPERTIES}", uses |-> TRUE] @@
  "createCompany" :> [method |-> "POST", path |-> "/crm/v3/objects/companies", uses |-> TRUE] @@
  "updateCompany" :> [method |-> "PATCH", path |-> "/crm/v3/objects/companies/${id}", uses |-> TRUE] @@
  "listDeals" :> [method |-> "GET", path |-> "/crm/v3/objects/deals?${queryParams}", uses |-> TRUE] @@
  "getDeal" :> [method |-> "GET", path |-> "/crm/v3/objects/deals/${id}?properties=${DEAL_PROPERTIES}", uses |-> TRUE] @@
  "createDeal" :> [method |-> "POST", path |-> "/crm/v3/objects/deals", uses |-> TRUE] @@
  "updateDeal" :> [method |-> "PATCH", path |-> "/crm/v3/objects/deals/${id}", uses |-> TRUE] @@
  "moveDealStage" :> [method |-> "PATCH", path |-> "/crm/v3/objects/deals/${id}", uses |-> TRUE] @@
  "listPipelines" :> [method |-> "GET", path |-> "/crm/v3/pipelines/deals", uses |-> TRUE] @@
  "listActivities" :> [method |-> "GET", path |-> "/crm/v3/objects/calls?${queryParams}", uses |-> TRUE] @@
  "createActivity" :> [method |-> "POST", path |-> "/crm/v3/objects/notes", uses |-> TRUE] @@
  "logCall" :> [method |-> "POST", path |-> "/crm/v3/objects/calls", uses |-> TRUE] @@
  "logEmail" :> [method |-> "POST", path |-> "/crm/v3/objects/emails", uses |-> TRUE] @@
  "deleteCompany" :> [method |-> "DELETE", path |-> "/crm/v3/objects/companies/${id}", uses |-> FALSE] @@
  "searchCompanies" :> [method |-> "POST", path |-> "/crm/v3/objects/companies/search", uses |-> TRUE] @@
  "deleteDeal" :> [method |-> "DELETE", path |-> "/crm/v3/objects/deals/${id}", uses |-> FALSE] @@
  "searchDeals" :> [method |-> "POST", path |-> "/crm/v3/objects/deals/search", uses |-> TRUE] @@
  "listTickets" :> [method |-> "GET", path |-> "/crm/v3/objects/tickets?${queryParams}", uses |-> TRUE] @@
  "getTicket" :> [method |-> "GET", path |-> "/crm/v3/objects/tickets/${id}?properties=${TICKET_PROPERTIES}", uses |-> TRUE] @@
  "createTicket" :> [method |-> "POST", path |-> "/crm/v3/objects/tickets", uses |-> TRUE] @@
  "updateTicket" :> [method |-> "PATCH", path |-> "/crm/v3/objects/tickets/${id}", uses |-> TRUE] @@
  "deleteTicket" :> [method |-> "DELETE", path |-> "/crm/v3/objects/tickets/${id}", uses |-> FALSE] @@
  "searchTickets" :> [method |-> "POST", path |-> "/crm/v3/objects/tickets/search", uses |-> TRUE] @@
  "listTicketPipelines" :> [method |-> "GET", path |-> "/crm/v3/pipelines/tickets", uses |-> TRUE] @@
  "listProducts" :> [method |-> "GET", path |-> "/crm/v3/objects/products?${queryParams}", uses |-> TRUE] @@
  "getProduct" :> [method |-> "GET", path |-> "/crm/v3/objects/products/${id}?properties=${PRODUCT_PROPERTIES}", uses |-> TRUE] @@
  "createProduct" :> [method |-> "POST", path |-> "/crm/v3/objects/products", uses |-> TRUE] @@
  "updateProduct" :> [method |-> "PATCH", path |-> "/crm/v3/objects/products/${id}", uses |-> TRUE] @@
  "deleteProduct" :> [method |-> "DELETE", path |-> "/crm/v3/objects/products/${id}", uses |-> FALSE] @@
  "searchProducts" :> [method |-> "POST", path |-> "/crm/v3/objects/products/search", uses |-> TRUE] @@
  "listLineItems" :> [method |-> "GET", path |-> "/crm/v3/objects/line_items?${queryParams}", uses |-> TRUE] @@
  "getLineItem" :> [method |-> "GET", path |-> "/crm/v3/objects/line_items/${id}?properties=${LINE_ITEM_PROPERTIES}", uses |-> TRUE] @@
  "createLineItem" :> [method |-> "POST", path |-> "/crm/v3/objects/line_items", uses |-> TRUE] @@
  "updateLineItem" :> [method |-> "PATCH", path |-> "/crm/v3/objects/line_items/${id}", uses |-> TRUE] @@
  "deleteLineItem" :> [method |-> "DELETE", path |-> "/crm/v3/objects/line_items/${id}", uses |-> FALSE] @@
  "listQuotes" :> [method |-> "GET", path |-> "/crm/v3/objects/quotes?${queryParams}", uses |-> TRUE] @@
  "getQuote" :> [method |-> "GET", path |-> "/crm/v3/objects/quotes/${id}?properties=${QUOTE_PROPERTIES}", uses |-> TRUE] @@
  "createQuote" :> [method |-> "POST", path |-> "/crm/v3/objects/quotes", uses |-> TRUE] @@
  "updateQuote" :> [method |-> "PATCH", path |-> "/crm/v3/objects/quotes/${id}", uses |-> TRUE] @@
  "listNotes" :> [method |-> "GET", path |-> "/crm/v3/objects/notes?${queryParams}", uses |-> TRUE] @@
  "getNote" :> [method |-> "GET", path |-> "/crm/v3/objects/notes/${id}?properties=${NOTE_PROPERTIES}", uses |-> TRUE] @@
  "createNote" :> [method |-> "POST", path |-> "/crm/v3/objects/notes", uses |-> TRUE] @@
  "updateNote" :> [method |-> "PATCH", path |-> "/crm/v3/objects/notes/${id}", uses |-> TRUE] @@
  "deleteNote" :> [method |-> "DELETE", path |-> "/crm/v3/objects/notes/${id}", uses |-> FALSE] @@
  "listMeetings" :> [method |-> "GET", path |-> "/crm/v3/objects/meetings?${queryParams}", uses |-> TRUE] @@
  "getMeeting" :> [method |-> "GET", path |-> "/crm/v3/objects/meetings/${id}?properties=${MEETING_PROPERTIES}", uses |-> TRUE] @@
  "createMeeting" :> [method |-> "POST", path |-> "/crm/v3/objects/meetings", uses |-> TRUE] @@
  "updateMeeting" :> [method |-> "PATCH", path |-> "/crm/v3/objects/meetings/${id}", uses |-> TRUE] @@
  "deleteMeeting" :> [method |-> "DELETE", path |-> "/crm/v3/objects/meetings/${id}", uses |-> FALSE] @@
  "listLeads" :> [method |-> "GET", path |-> "/crm/v3/objects/leads?${queryParams}", uses |-> TRUE] @@
  "getLead" :> [method |-> "GET", path |-> "/crm/v3/objects/leads/${id}?properties=${LEAD_PROPERTIES}", uses |-> TRUE] @@
  "createLead" :> [method |-> "POST", path |-> "/crm/v3/objects/leads", uses |-> TRUE] @@
  "updateLead" :> [method |-> "PATCH", path |-> "/crm/v3/objects/leads/${id}", uses |-> TRUE] @@
  "deleteLead" :> [method |-> "DELETE", path |-> "/crm/v3/objects/leads/${id}", uses |-> FALSE] @@
  "searchLeads" :> [method |-> "POST", path |-> "/crm/v3/objects/leads/search", uses |-> TRUE] @@
  "createAssociation" :> [method |-> "PUT", path |-> "/crm/v3/objects/${fromObjectType}/${fromObjectId}/associations/${toObjectType}/${toObjectId}/${associationTypeId}", uses |-> FALSE] @@
  "deleteAssociation" :> [method |-> "DELETE", path |-> "/crm/v3/objects/${fromObjectType}/${fromObjectId}/associations/${toObjectType}/${toObjectId}/${associationTypeId}", uses |-> FALSE] @@
  "listAssociations" :> [method |-> "GET", path |-> "/crm/v3/objects/${objectType}/${objectId}/associations/${toObjectType}", uses |-> TRUE] @@
  "getAssociationLabels" :> [method |-> "GET", path |-> "/crm/v4/associations/${fromObjectType}/${toObjectType}/labels", uses |-> TRUE] @@
  "listProperties" :> [method |-> "GET", path |-> "/crm/v3/properties/${objectType}", uses |-> TRUE] @@
  "getProperty" :> [method |-> "GET", path |-> "/crm/v3/properties/${objectType}/${propertyName}", uses |-> TRUE] @@
  "createProperty" :> [method |-> "POST", path |-> "/crm/v3/properties/${objectType}", uses |-> TRUE] @@
  "updateProperty" :> [method |-> "PATCH", path |-> "/crm/v3/properties/${objectType}/${propertyName}", uses |-> TRUE] @@
  "deleteProperty" :> [method |-> "DELETE", path |-> "/crm/v3/properties/${objectType}/${propertyName}", uses |-> FALSE] @@
  "listPropertyGroups" :> [method |-> "GET", path |-> "/crm/v3/properties/${objectType}/groups", uses |-> TRUE] @@
  "batchReadContacts" :> [method |-> "POST", path |-> "/crm/v3/objects/contacts/batch/read", uses |-> TRUE] @@
  "batchCreateContacts" :> [method |-> "POST", path |-> "/crm/v3/objects/contacts/batch/create", uses |-> TRUE] @@
  "batchUpdateContacts" :> [method |-> "POST", path |-> "/crm/v3/objects/contacts/batch/update", uses |-> TRUE] @@
  "batchArchiveContacts" :> [method |-> "POST", path |-> "/crm/v3/objects/contacts/batch/archive", uses |-> FALSE] @@
  "batchReadCompanies" :> [method |-> "POST", path |-> "/crm/v3/objects/companies/batch/read", uses |-> TRUE] @@
  "batchCreateCompanies" :> [method |-> "POST", path |-> "/crm/v3/objects/companies/batch/create", uses |-> TRUE] @@
  "batchUpdateCompanies" :> [method |-> "POST", path |-> "/crm/v3/objects/companies/batch/update", uses |-> TRUE] @@
  "batchArchiveCompanies" :> [method |-> "POST", path |-> "/crm/v3/objects/companies/batch/archive", uses |-> FALSE] @@
  "batchReadDeals" :> [method |-> "POST", path |-> "/crm/v3/objects/deals/batch/read", uses |-> TRUE] @@
  "batchCreateDeals" :> [method |-> "POST", path |-> "/crm/v3/objects/deals/batch/create", uses |-> TRUE] @@
  "batchUpdateDeals" :> [method |-> "POST", path |-> "/crm/v3/objects/deals/batch/update", uses |-> TRUE] @@
  "batchArchiveDeals" :> [method |-> "POST", path |-> "/crm/v3/objects/deals/batch/archive", uses |-> FALSE] @@
  "batchReadTickets" :> [method |-> "POST", path |-> "/crm/v3/objects/tickets/batch/read", uses |-> TRUE] @@
  "batchCreateTickets" :> [method |-> "POST", path |-> "/crm/v3/objects/tickets/batch/create", uses |-> TRUE] @@
  "batchUpdateTickets" :> [method |-> "POST", path |-> "/crm/v3/objects/tickets/batch/update", uses |-> TRUE] @@
  "batchArchiveTickets" :> [method |-> "POST", path |-> "/crm/v3/objects/tickets/batch/archive", uses |-> FALSE] @@
  "listOwners" :> [method |-> "GET", path |-> "/crm/v3/owners", uses |-> TRUE] @@
  "getOwner" :> [method |-> "GET", path |-> "/crm/v3/owners/${id}", uses |-> TRUE] @@
  "getPipeline" :> [method |-> "GET", path |-> "/crm/v3/pipelines/${objectType}/${pipelineId}", uses |-> TRUE] @@
  "createPipeline" :> [method |-> "POST", path |-> "/crm/v3/pipelines/${objectType}", uses |-> TRUE] @@
  "updatePipeline" :> [method |-> "PATCH", path |-> "/crm/v3/pipelines/${objectType}/${pipelineId}", uses |-> TRUE] @@
  "deletePipeline" :> [method |-> "DELETE", path |-> "/crm/v3/pipelines/${objectType}/${pipelineId}", uses |-> FALSE] @@
  "getPipelineStage" :> [method |-> "GET", path |-> "/crm/v3/pipelines/${objectType}/${pipelineId}/stages/${stageId}", uses |-> TRUE] @@
  "createPipelineStage" :> [method |-> "POST", path |-> "/crm/v3/pipelines/${objectType}/${pipelineId}/stages", uses |-> TRUE] @@
  "updatePipelineStage" :> [method |-> "PATCH", path |-> "/crm/v3/pipelines/${objectType}/${pipelineId}/stages/${stageId}", uses |-> TRUE] @@
  "deletePipelineStage" :> [method |-> "DELETE", path |-> "/crm/v3/pipelines/${objectType}/${pipelineId}/stages/${stageId}", uses |-> FALSE] @@
  "listWebhookSubscriptions" :> [method |-> "GET", path |-> "/webhooks/v3/${appId}/subscriptions", uses |-> TRUE] @@
  "listInvoices" :> [method |-> "GET", path |-> "/crm/v3/objects/invoices?${queryParams}", uses |-> TRUE] @@
  "getInvoice" :> [method |-> "GET", path |-> "/crm/v3/objects/invoices/${id}?properties=${INVOICE_PROPERTIES}", uses |-> TRUE] @@
  "listOrders" :> [method |-> "GET", path |-> "/crm/v3/objects/orders?${queryParams}", uses |-> TRUE] @@
  "getOrder" :> [method |-> "GET", path |-> "/crm/v3/objects/orders/${id}?properties=${ORDER_PROPERTIES}", uses |-> TRUE]

Operations == DOMAIN OpTable

\* Operations that create an object and then link it.
CreateAssocOps ==
  {"createTicket", "createNote", "createMeeting", "createQuote", "createLineItem",
   "createActivity", "logCall", "logEmail"}

UpdateOps ==
  {"updateContact", "updateCompany", "updateDeal", "updateTicket", "updateProduct",
   "updateLineItem", "updateQuote", "updateNote", "updateMeeting", "updateLead"}

GenericOps == Operations \ (CreateAssocOps \cup UpdateOps)

NoInput == [none |-> TRUE]
OpaqueBody == [opaque |-> TRUE]
PutOptions == [method |-> "PUT", body |-> NoBody, headers |-> NoHeaders]

\* properties[key] = value
Put(props, key, value) ==
  [k \in DOMAIN props \cup {key} |-> IF k = key THEN value ELSE props[k]]

NoProperties == [k \in {} |-> ""]

\* The loop with a guard that keeps a property the mapped fields already set.
RECURSIVE mergeEntriesGuarded(_, _)
mergeEntriesGuarded(props, entries) ==
  IF entries = <<>> THEN props
  ELSE LET e == Head(entries)
       IN mergeEntriesGuarded(IF e.value # Undefined /\ e.value # Null /\ e.key \notin DOMAIN props
                              THEN Put(props, e.key, String(e.value))
                              ELSE props,
                              Tail(entries))

\* for (const [key, value] of Object.entries(customFields))
\*   if (value !== undefined && value !== null) properties[key] = String(value)
RECURSIVE mergeEntries(_, _)
mergeEntries(props, entries) ==
  IF entries = <<>> THEN props
  ELSE LET e == Head(entries)
       IN mergeEntries(IF e.value # Undefined /\ e.value # Null
                       THEN Put(props, e.key, String(e.value))
                       ELSE props,
                       Tail(entries))

\* if (input.customFields) { ...loop... }
mergeCustomFields(props, customFields) ==
  IF Truthy(customFields) THEN mergeEntries(props, customFields.entries) ELSE props

Object(entries) == [t |-> "object", entries |-> entries]

\* ---------------------------------------------------------------------------
\* Update operations: outgoing PATCH properties
\* ---------------------------------------------------------------------------
F(field, prop, conv) == [field |-> field, prop |-> prop, conv |-> conv]

\* One row per `if (input.<field> !== undefined) properties.<prop> = ...` line
\* of the update method, in source order; conv is "String" where the source
\* wraps the value in String(...), "asis" where it assigns the value itself.
UpdateFields(o) ==
  CASE o = "updateContact" ->
         <<F("firstName", "firstname", "asis"), F("lastName", "lastname", "asis"),
           F("email", "email", "asis"), F("phone", "phone", "asis"),
           F("title", "jobtitle", "asis")>>
    [] o = "updateCompany" ->
         <<F("name", "name", "asis"), F("domain", "domain", "asis"),
           F("industry", "industry", "asis"), F("description", "description", "asis"),
           F("numberOfEmployees", "numberofemployees", "String"),
           F("type", "type", "asis"), F("phone", "phone", "asis")>>
    [] o = "updateDeal" ->
         <<F("name", "dealname", "asis"), F("amount", "amount", "String"),
           F("stageId", "dealstage", "asis"), F("closeDate", "closedate", "asis")>>
    [] o = "updateTicket" ->
         <<F("subject", "subject", "asis"), F("content", "content", "asis"),
           F("stageId", "hs_pipeline_stage", "asis"),
           F("priority", "hs_ticket_priority", "asis"),
           F("ownerId", "hubspot_owner_id", "asis")>>
    [] o = "updateProduct" ->
         <<F("name", "name", "asis"), F("description", "description", "asis"),
           F("price", "price", "String"), F("sku", "hs_sku", "asis"),
           F("recurringBillingPeriod", "hs_recurring_billing_period", "asis")>>
    [] o = "updateLineItem" ->
         <<F("name", "name", "asis"), F("quantity", "quantity", "String"),
           F("price", "price", "String"), F("discount", "discount", "String")>>
    [] o = "updateQuote" ->
         <<F("title", "hs_title", "asis"),
           F("expirationDate", "hs_expiration_date", "asis"),
           F("status", "hs_status", "asis")>>
    [] o = "updateNote" ->
         <<F("body", "hs_note_body", "asis"), F("timestamp", "hs_timestamp", "asis"),
           F("ownerId", "hubspot_owner_id", "asis")>>
    [] o = "updateMeeting" ->
         <<F("title", "hs_meeting_title", "asis"), F("body", "hs_meeting_body", "asis"),
           F("startTime", "hs_meeting_start_time", "asis"),
           F("endTime", "hs_meeting_end_time", "asis"),
           F("outcome", "hs_meeting_outcome", "asis"),
           F("ownerId", "hubspot_owner_id", "asis")>>
    [] o = "updateLead" ->
         <<F("firstName", "firstname", "asis"), F("lastName", "lastname", "asis"),
           F("email", "email", "asis"), F("phone", "phone", "asis"),
           F("company", "company", "asis"), F("status", "hs_lead_status", "asis"),
           F("ownerId", "hubspot_owner_id", "asis")>>

\* updateNote and updateMeeting have no customFields loop.
HasCustomFields(o) == o \notin {"updateNote", "updateMeeting"}

FieldNames(o) == {UpdateFields(o)[i].field : i \in DOMAIN UpdateFields(o)}
PropNames(o) == {UpdateFields(o)[i].prop : i \in DOMAIN UpdateFields(o)}
PropOf(o, field) ==
  LET i == CHOOSE j \in DOMAIN UpdateFields(o) : UpdateFields(o)[j].field = field
  IN UpdateFields(o)[i].prop

\* The assignment without its `!== undefined` guard.
setAlways(props, row, value) == Put(props, row.prop, String(value))

\* if (input.<field> !== undefined) properties.<prop> = <value>
setIfDefined(props, row, value) ==
  IF value # Undefined THEN Put(props, row.prop, String(value)) ELSE props

RECURSIVE applyFields(_, _, _)
applyFields(props, rows, fields) ==
  IF rows = <<>> THEN props
  ELSE applyFields(setIfDefined(props, Head(rows), fields[Head(rows).field]),
                   Tail(rows), fields)

\* The `properties` object an update method sends.
updateProperties(o, in) ==
  LET mapped == applyFields(NoProperties, UpdateFields(o), in.fields)
  IN IF HasCustomFields(o) THEN mergeCustomFields(mapped, in.customFields) ELSE mapped

\* Update inputs: any subset of the fields is supplied, the others are
\* undefined; a supplied field is empty/zero or filled.
IsNumeric(o, field) ==
  \E i \in DOMAIN UpdateFields(o) :
    UpdateFields(o)[i].field = field /\ UpdateFields(o)[i].conv = "String"

Supplied(o, field, profile) ==
  IF IsNumeric(o, field)
  THEN (IF profile = "empty" THEN Num(0) ELSE Num(5))
  ELSE (IF profile = "empty" THEN Str("") ELSE Str("new"))

CustomFieldValues == {Undefined, Null, Str("cv")}

CustomFieldsFor(o) ==
  IF HasCustomFields(o)
  THEN {Undefined, Object(<<>>)} \cup
       {Object(<<[key |-> k, value |-> v]>>) :
          k \in {"custom_field", UpdateFields(o)[1].prop}, v \in CustomFieldValues}
  ELSE {Undefined}

UpdateInputs(o) ==
  {[id |-> "42",
    fields |-> [f \in FieldNames(o) |-> IF f \in S THEN Supplied(o, f, profile) ELSE Undefined],
    customFields |-> cf] :
     S \in SUBSET FieldNames(o), profile \in {"empty", "filled"}, cf \in CustomFieldsFor(o)}

\* The update inputs the all-operations specification draws from.
FewUpdateInputs(o) ==
  {in \in UpdateInputs(o) :
     /\ in.customFields = Undefined
     /\ \A f \in FieldNames(o) : in.fields[f] \in {Str("new"), Num(5)}}

\* ---------------------------------------------------------------------------
\* Create-then-associate operations
\* ---------------------------------------------------------------------------
\* new Date().toISOString()
Now == "2024-05-01T12:00:00.000Z"

Array(items) == [t |-> "array", items |-> items]

\* ids?.[0]
First(ids) ==
  IF ids = Undefined \/ ids.items = <<>> THEN Undefined ELSE Str(ids.items[1])

\* if (value) properties[key] = value
setIfTruthy(props, key, value) ==
  IF Truthy(value) THEN Put(props, key, String(value)) ELSE props

createTicketProperties(in) ==
  mergeCustomFields(
    setIfTruthy(setIfTruthy(setIfTruthy(setIfTruthy(setIfTruthy(setIfTruthy(
      NoProperties,
      "subject", in.subject), "content", in.content), "hs_pipeline", in.pipelineId),
      "hs_pipeline_stage", in.stageId), "hs_ticket_priority", in.priority),
      "hubspot_owner_id", in.ownerId),
    in.customFields)

createNoteProperties(in) ==
  setIfTruthy(
    Put(Put(NoProperties, "hs_note_body", String(in.body)),
        "hs_timestamp", String(JsOr(in.timestamp, Str(Now)))),
    "hubspot_owner_id", in.ownerId)

createMeetingProperties(in) ==
  setIfTruthy(setIfTruthy(setIfTruthy(
    Put(Put(Put(NoProperties, "hs_meeting_title", String(in.title)),
            "hs_meeting_start_time", String(in.startTime)),
        "hs_meeting_end_time", String(in.endTime)),
    "hs_meeting_body", in.body), "hs_meeting_outcome", in.outcome),
    "hubspot_owner_id", in.ownerId)

createQuoteProperties(in) ==
  mergeCustomFields(
    setIfTruthy(setIfTruthy(NoProperties, "hs_title", in.title),
                "hs_expiration_date", in.expirationDate),
    in.customFields)

createLineItemProperties(in) ==
  LET row(prop) == [prop |-> prop]
  IN mergeCustomFields(
       setIfTruthy(
         setIfDefined(setIfDefined(setIfDefined(
           setIfTruthy(NoProperties, "name", in.name),
           row("quantity"), in.quantity), row("price"), in.price),
           row("discount"), in.discount),
         "hs_product_id", in.productId),
       in.customFields)

logCallProperties(in) ==
  LET base == Put(Put(NoProperties, "hs_call_title", String(in.subject)), "hs_timestamp", Now)
      withBody == setIfTruthy(base, "hs_call_body", in.notes)
  IN IF Truthy(in.durationMinutes)
     THEN Put(withBody, "hs_call_duration", ToString(in.durationMinutes.n * 60 * 1000))
     ELSE withBody

logEmailProperties(in) ==
  Put(Put(Put(Put(NoProperties, "hs_email_subject", String(in.subject)),
              "hs_email_text", String(in.body)),
          "hs_email_direction", IF in.direction = "sent" THEN "EMAIL" ELSE "INCOMING_EMAIL"),
      "hs_timestamp", Now)

\* createActivity hands a call or an email to logCall / logEmail.
activityAsCall(in) ==
  [contactId |-> JsOr(First(in.contactIds), Str("")), subject |-> in.subject,
   notes |-> in.body, durationMinutes |-> Undefined]

activityAsEmail(in) ==
  [contactId |-> JsOr(First(in.contactIds), Str("")), subject |-> in.subject,
   body |-> JsOr(in.body, Str("")), direction |-> "sent"]

createActivityNoteProperties(in) ==
  Put(Put(NoProperties, "hs_note_body", String(JsOr(in.body, in.subject))), "hs_timestamp", Now)

\* The `properties` object of the primary create request.
createProperties(o, in) ==
  CASE o = "createTicket" -> createTicketProperties(in)
    [] o = "createNote" -> createNoteProperties(in)
    [] o = "createMeeting" -> createMeetingProperties(in)
    [] o = "createQuote" -> createQuoteProperties(in)
    [] o = "createLineItem" -> createLineItemProperties(in)
    [] o = "logCall" -> logCallProperties(in)
    [] o = "logEmail" -> logEmailProperties(in)
    [] o = "createActivity" ->
         (CASE in.type = "call" -> logCallProperties(activityAsCall(in))
            [] in.type = "email" -> logEmailProperties(activityAsEmail(in))
            [] OTHER -> createActivityNoteProperties(in))

\* Every activity created as a note, whatever its type tag.
createEndpointNotes(o, in) == OpTable[o].path

\* Endpoint of the primary create request.
createEndpoint(o, in) ==
  CASE o = "createActivity" ->
         (CASE in.type = "call" -> OpTable["logCall"].path
            [] in.type = "email" -> OpTable["logEmail"].path
            [] OTHER -> OpTable["createActivity"].path)
    [] OTHER -> OpTable[o].path

Link(fromType, fromId, toType, toId, typeId) ==
  [endpoint |-> "/crm/v3/objects/" \o fromType \o "/" \o fromId \o "/associations/" \o
                toType \o "/" \o toId \o "/" \o typeId,
   options |-> PutOptions]

\* if (value) await this.request(<link>, { method: 'PUT' })
linkIf(value, fromType, fromId, toType, typeId) ==
  IF Truthy(value) THEN <<Link(fromType, fromId, toType, String(value), typeId)>> ELSE <<>>

\* The association requests an operation makes after its create returned the
\* object `id`, in the order the method issues them.
associations(o, in, id) ==
  CASE o = "createTicket" ->
         linkIf(in.contactId, "tickets", id, "contacts", "16") \o
         linkIf(in.companyId, "tickets", id, "companies", "26")
    [] o = "createNote" ->
         linkIf(in.contactId, "notes", id, "contacts", "202") \o
         linkIf(in.companyId, "notes", id, "companies", "190") \o
         linkIf(in.dealId, "notes", id, "deals", "214")
    [] o = "createMeeting" ->
         IF Truthy(in.contactIds) /\ Len(in.contactIds.items) > 0
         THEN [i \in 1..Len(in.contactIds.items) |->
                 Link("meetings", id, "contacts", in.contactIds.items[i], "200")]
         ELSE <<>>
    [] o = "createQuote" -> linkIf(in.dealId, "quotes", id, "deals", "64")
    [] o = "createLineItem" -> linkIf(in.dealId, "line_items", id, "deals", "20")
    [] o = "logCall" -> linkIf(in.contactId, "calls", id, "contacts", "194")
    [] o = "logEmail" -> linkIf(in.contactId, "emails", id, "contacts", "198")
    [] o = "createActivity" ->
         (CASE in.type = "call" ->
                 linkIf(activityAsCall(in).contactId, "calls", id, "contacts", "194")
            [] in.type = "email" ->
                 linkIf(activityAsEmail(in).contactId, "emails", id, "contacts", "198")
            [] OTHER ->
                 IF Truthy(in.contactIds) /\ Len(in.contactIds.items) > 0
                 THEN <<Link("notes", id, "contacts", in.contactIds.items[1], "202")>>
                 ELSE <<>>)
    [] OTHER -> <<>>

\* Inputs of the create-then-associate operations.
IdValues(id) == {Undefined, Str(""), Str(id)}
ContactIds == {"c1", "c2"}
ContactIdLists == {Undefined} \cup {Array(s) : s \in SeqsUpTo(ContactIds, MaxContacts)}
ActivityTypes == {"call", "email", "note", "meeting", "task", "other"}

CreateInputs(o) ==
  CASE o = "createTicket" ->
         {[subject |-> Str("Printer on fire"), content |-> Undefined, pipelineId |-> Undefined,
           stageId |-> Undefined, priority |-> p, ownerId |-> Undefined,
           customFields |-> Undefined, contactId |-> c, companyId |-> k] :
            p \in {Undefined, Str("HIGH")}, c \in IdValues("c1"), k \in IdValues("k1")}
    [] o = "createNote" ->
         {[body |-> Str("called back"), timestamp |-> ts, ownerId |-> Undefined,
           contactId |-> c, companyId |-> k, dealId |-> d] :
            ts \in {Undefined, Str("2024-01-01T00:00:00.000Z")},
            c \in IdValues("c1"), k \in IdValues("k1"), d \in IdValues("d1")}
    [] o = "createMeeting" ->
         {[title |-> Str("Kickoff"), startTime |-> Str("2024-06-01T09:00:00.000Z"),
           endTime |-> Str("2024-06-01T10:00:00.000Z"), body |-> Undefined,
           outcome |-> oc, ownerId |-> Undefined, contactIds |-> ids] :
            oc \in {Undefined, Str("SCHEDULED")}, ids \in ContactIdLists}
    [] o = "createQuote" ->
         {[title |-> Str("Q1"), expirationDate |-> e, customFields |-> Undefined, dealId |-> d] :
            e \in {Undefined, Str("2024-12-31")}, d \in IdValues("d1")}
    [] o = "createLineItem" ->
         {[name |-> Str("Widget"), quantity |-> q, price |-> Num(5), discount |-> Undefined,
           productId |-> Undefined, customFields |-> Undefined, dealId |-> d] :
            q \in {Undefined, Num(0), Num(2)}, d \in IdValues("d1")}
    [] o = "logCall" ->
         {[contactId |-> c, subject |-> Str("Intro call"), notes |-> n, durationMinutes |-> m] :
            c \in {Str(""), Str("c1")}, n \in {Undefined, Str("left voicemail")},
            m \in {Undefined, Num(0), Num(3)}}
    [] o = "logEmail" ->
         {[contactId |-> c, subject |-> Str("Hello"), body |-> Str("text"), direction |-> dir] :
            c \in {Str(""), Str("c1")}, dir \in {"sent", "received"}}
    [] o = "createActivity" ->
         {[type |-> ty, subject |-> Str("Follow up"), body |-> b, contactIds |-> ids] :
            ty \in ActivityTypes, b \in {Undefined, Str("details")}, ids \in ContactIdLists}

\* ---------------------------------------------------------------------------
\* Object families, their property lists and the mapHubSpot<Family> mappers
\* ---------------------------------------------------------------------------
Families ==
  {"contacts", "companies", "deals", "tickets", "products", "line_items", "quotes",
   "notes", "meetings", "leads"}

\* The object family an update or create operation writes to.
FamilyOf(o) ==
  CASE o \in {"updateContact", "createContact"} -> "contacts"
    [] o \in {"updateCompany", "createCompany"} -> "companies"
    [] o \in {"updateDeal", "createDeal"} -> "deals"
    [] o = "updateTicket" -> "tickets"
    [] o \in {"updateProduct", "createProduct"} -> "products"
    [] o = "updateLineItem" -> "line_items"
    [] o = "updateQuote" -> "quotes"
    [] o = "updateNote" -> "notes"
    [] o = "updateMeeting" -> "meetings"
    [] o \in {"updateLead", "createLead"} -> "leads"

\* <FAMILY>_PROPERTIES.split(',')
PropertyList(family) ==
  CASE family = "contacts" ->
         <<"firstname", "lastname", "email", "phone", "jobtitle", "company", "lifecyclestage",
          "hs_lead_status", "createdate", "lastmodifieddate">>
    [] family = "companies" ->
         <<"name", "domain", "website", "industry", "description", "numberofemployees",
          "annualrevenue", "type", "phone", "createdate", "lastmodifieddate">>
    [] family = "deals" ->
         <<"dealname", "amount", "dealstage", "pipeline", "closedate",
          "hs_deal_stage_probability", "createdate", "lastmodifieddate">>
    [] family = "tickets" ->
         <<"subject", "content", "hs_pipeline", "hs_pipeline_stage", "hs_ticket_priority",
          "hubspot_owner_id", "createdate", "lastmodifieddate">>
    [] family = "products" ->
         <<"name", "description", "price", "hs_sku", "hs_recurring_billing_period",
          "createdate", "lastmodifieddate">>
    [] family = "line_items" ->
         <<"name", "quantity", "price", "amount", "discount", "hs_product_id",
          "createdate", "lastmodifieddate">>
    [] family = "quotes" ->
         <<"hs_title", "hs_status", "hs_expiration_date", "hs_deal_id", "hs_total",
          "createdate", "lastmodifieddate">>
    [] family = "notes" ->
         <<"hs_note_body", "hs_timestamp", "hubspot_owner_id", "createdate", "lastmodifieddate">>
    [] family = "meetings" ->
         <<"hs_meeting_title", "hs_meeting_body", "hs_meeting_start_time",
          "hs_meeting_end_time", "hs_meeting_outcome", "hubspot_owner_id",
          "createdate", "lastmodifieddate">>
    [] family = "leads" ->
         <<"firstname", "lastname", "email", "phone", "company", "hs_lead_status",
          "hs_leadstatus", "createdate", "lastmodifieddate">>
    [] family = "invoices" ->
         <<"hs_number", "hs_status", "hs_due_date", "hs_amount_billed", "hs_currency",
          "createdate">>
    [] family = "orders" ->
         <<"hs_order_name", "hs_external_order_id", "hs_fulfillment_status",
          "hs_total_price", "createdate">>
    [] family = "calls" ->
         <<"hs_call_title", "hs_call_body", "hs_call_duration", "hs_timestamp">>

\* The properties a get requests.
RequestedProperties(family) ==
  {PropertyList(family)[i] : i \in DOMAIN PropertyList(family)}

R(field, props, conv) == [field |-> field, props |-> props, conv |-> conv]

\* One row per field of the mapper's result: the properties it reads, joined
\* by ||, and how it ends: "orUndefined" for `|| undefined`, "orEmpty" for
\* `|| ''`, "number" for `props.x ? parseFloat(props.x) : undefined` (parseInt
\* for numberofemployees).
ReadFields(family) ==
  CASE family = "contacts" ->
         <<R("firstName", <<"firstname">>, "orUndefined"),
           R("lastName", <<"lastname">>, "orUndefined"),
           R("email", <<"email">>, "orUndefined"), R("phone", <<"phone">>, "orUndefined"),
           R("title", <<"jobtitle">>, "orUndefined"),
           R("companyName", <<"company">>, "orUndefined"),
           R("lifecycleStage", <<"lifecyclestage">>, "orUndefined"),
           R("status", <<"hs_lead_status">>, "orUndefined")>>
    [] family = "companies" ->
         <<R("name", <<"name">>, "orEmpty"), R("domain", <<"domain">>, "orUndefined"),
           R("website", <<"website">>, "orUndefined"),
           R("industry", <<"industry">>, "orUndefined"),
           R("description", <<"description">>, "orUndefined"),
           R("numberOfEmployees", <<"numberofemployees">>, "number"),
           R("annualRevenue", <<"annualrevenue">>, "number"),
           R("type", <<"type">>, "orUndefined"), R("phone", <<"phone">>, "orUndefined")>>
    [] family = "deals" ->
         <<R("name", <<"dealname">>, "orEmpty"), R("amount", <<"amount">>, "number"),
           R("stageId", <<"dealstage">>, "orUndefined"),
           R("stage", <<"dealstage">>, "orUndefined"),
           R("pipelineId", <<"pipeline">>, "orUndefined"),
           R("closeDate", <<"closedate">>, "orUndefined"),
           R("probability", <<"hs_deal_stage_probability">>, "number")>>
    [] family = "tickets" ->
         <<R("subject", <<"subject">>, "orEmpty"), R("content", <<"content">>, "orUndefined"),
           R("pipelineId", <<"hs_pipeline">>, "orUndefined"),
           R("stageId", <<"hs_pipeline_stage">>, "orUndefined"),
           R("priority", <<"hs_ticket_priority">>, "orUndefined"),
           R("ownerId", <<"hubspot_owner_id">>, "orUndefined")>>
    [] family = "products" ->
         <<R("name", <<"name">>, "orEmpty"),
           R("description", <<"description">>, "orUndefined"),
           R("price", <<"price">>, "number"), R("sku", <<"hs_sku">>, "orUndefined"),
           R("recurringBillingPeriod", <<"hs_recurring_billing_period">>, "orUndefined")>>
    [] family = "line_items" ->
         <<R("name", <<"name">>, "orEmpty"), R("quantity", <<"quantity">>, "number"),
           R("price", <<"price">>, "number"), R("amount", <<"amount">>, "number"),
           R("discount", <<"discount">>, "number"),
           R("productId", <<"hs_product_id">>, "orUndefined")>>
    [] family = "quotes" ->
         <<R("title", <<"hs_title">>, "orEmpty"), R("status", <<"hs_status">>, "orUndefined"),
           R("expirationDate", <<"hs_expiration_date">>, "orUndefined"),
           R("dealId", <<"hs_deal_id">>, "orUndefined"),
           R("totalAmount", <<"hs_total">>, "number")>>
    [] family = "notes" ->
         <<R("body", <<"hs_note_body">>, "orEmpty"),
           R("timestamp", <<"hs_timestamp">>, "orUndefined"),
           R("ownerId", <<"hubspot_owner_id">>, "orUndefined")>>
    [] family = "meetings" ->
         <<R("title", <<"hs_meeting_title">>, "orEmpty"),
           R("body", <<"hs_meeting_body">>, "orUndefined"),
           R("startTime", <<"hs_meeting_start_time">>, "orUndefined"),
           R("endTime", <<"hs_meeting_end_time">>, "orUndefined"),
           R("outcome", <<"hs_meeting_outcome">>, "orUndefined"),
           R("ownerId", <<"hubspot_owner_id">>, "orUndefined")>>
    [] family = "leads" ->
         <<R("firstName", <<"firstname">>, "orUndefined"),
           R("lastName", <<"lastname">>, "orUndefined"),
           R("email", <<"email">>, "orUndefined"), R("phone", <<"phone">>, "orUndefined"),
           R("company", <<"company">>, "orUndefined"),
           R("status", <<"hs_lead_status", "hs_leadstatus">>, "orUndefined")>>
    [] family = "invoices" ->
         <<R("invoiceNumber", <<"hs_number">>, "orUndefined"),
           R("status", <<"hs_status">>, "orUndefined"),
           R("dueDate", <<"hs_due_date">>, "orUndefined"),
           R("totalAmount", <<"hs_amount_billed">>, "number"),
           R("currency", <<"hs_currency">>, "orUndefined")>>
    [] family = "orders" ->
         <<R("orderNumber", <<"hs_order_name", "hs_external_order_id">>, "orUndefined"),
           R("status", <<"hs_fulfillment_status">>, "orUndefined"),
           R("totalAmount", <<"hs_total_price">>, "number")>>

\* props.<name>: undefined when the object carries no such property.
Prop(props, name) == IF name \in DOMAIN props THEN Str(props[name]) ELSE Undefined

\* props.a || props.b || ... || last
RECURSIVE OrChain(_, _, _)
OrChain(props, names, last) ==
  IF names = <<>> THEN last
  ELSE JsOr(Prop(props, Head(names)), OrChain(props, Tail(names), last))

\* Numbers whose decimal text the model's properties can hold.
NumberTexts == 0..9

\* parseFloat / parseInt(text, 10) of a property value: the number whose
\* decimal text it is, NaN for text that does not start with a number.
parseNumber(text) ==
  IF \E n \in NumberTexts : ToString(n) = text
  THEN Num(CHOOSE n \in NumberTexts : ToString(n) = text)
  ELSE NaN

readField(props, row) ==
  CASE row.conv = "orUndefined" -> OrChain(props, row.props, Undefined)
    [] row.conv = "orEmpty" -> OrChain(props, row.props, Str(""))
    [] row.conv = "number" ->
         IF Truthy(Prop(props, row.props[1]))
         THEN parseNumber(props[row.props[1]])
         ELSE Undefined

\* fullName of mapHubSpotContact: the two names joined and trimmed.
fullName(props) ==
  LET first == String(JsOr(Prop(props, "firstname"), Str("")))
      last == String(JsOr(Prop(props, "lastname"), Str("")))
  IN IF Truthy(Prop(props, "firstname")) \/ Truthy(Prop(props, "lastname"))
     THEN Str(IF first = "" THEN last ELSE IF last = "" THEN first ELSE first \o " " \o last)
     ELSE Undefined

\* mapHubSpot<Family>(obj)
mapHubSpot(family, obj) ==
  LET rows == ReadFields(family)
      read == [f \in {rows[i].field : i \in DOMAIN rows} |->
                 readField(obj.properties,
                           rows[CHOOSE i \in DOMAIN rows : rows[i].field = f])]
      created == String(JsOr(Prop(obj.properties, "createdate"), Str(obj.createdAt)))
      stamps == IF family \in {"invoices", "orders"}
                THEN [id |-> obj.id, createdAt |-> created]
                ELSE [id |-> obj.id, createdAt |-> created,
                      updatedAt |-> String(JsOr(Prop(obj.properties, "lastmodifieddate"),
                                                Str(obj.updatedAt)))]
  IN IF family = "contacts"
     THEN [stamps |-> stamps, fields |-> ("fullName" :> fullName(obj.properties)) @@ read]
     ELSE [stamps |-> stamps, fields |-> read]

\* Math.round(parseInt(text, 10) / 1000 / 60)
durationMinutes(text) ==
  IF parseNumber(text) = NaN THEN NaN ELSE Num((parseNumber(text).n + 30000) \div 60000)

\* mapHubSpotActivity(obj, type)
mapHubSpotActivity(obj, type) ==
  LET props == obj.properties
      stamps == [id |-> obj.id, createdAt |-> obj.createdAt, updatedAt |-> obj.updatedAt]
  IN CASE type = "call" ->
            [stamps |-> stamps,
             fields |-> [type |-> Str("call"),
                         subject |-> JsOr(Prop(props, "hs_call_title"), Str("")),
                         body |-> JsOr(Prop(props, "hs_call_body"), Undefined),
                         durationMinutes |-> IF Truthy(Prop(props, "hs_call_duration"))
                                             THEN durationMinutes(props["hs_call_duration"])
                                             ELSE Undefined,
                         activityDate |-> JsOr(Prop(props, "hs_timestamp"), Undefined)]]
       [] type = "email" ->
            [stamps |-> stamps,
             fields |-> [type |-> Str("email"),
                         subject |-> JsOr(Prop(props, "hs_email_subject"), Str("")),
                         body |-> JsOr(Prop(props, "hs_email_text"), Undefined),
                         activityDate |-> JsOr(Prop(props, "hs_timestamp"), Undefined)]]
       [] OTHER ->
            [stamps |-> stamps,
             fields |-> [type |-> Str("note"), subject |-> Str("Note"),
                         body |-> JsOr(Prop(props, "hs_note_body"), Undefined),
                         activityDate |-> JsOr(Prop(props, "hs_timestamp"), Undefined)]]

\* The object the backend returns for GET .../{id}?properties=<list>: the
\* stored properties among those requested, under the server's timestamps.
ServerTime == "2024-04-01T08:00:00.000Z"

backendObject(b, family, id) ==
  [json |-> TRUE, message |-> Undefined, error |-> Undefined, id |-> id,
   properties |-> [p \in (DOMAIN b.store) \cap RequestedProperties(family) |-> b.store[p]],
   createdAt |-> ServerTime, updatedAt |-> ServerTime]

\* ---------------------------------------------------------------------------
\* Plain create operations (no association step)
\* ---------------------------------------------------------------------------
PlainCreateOps == {"createContact", "createCompany", "createDeal", "createProduct", "createLead"}

\* One row per guarded assignment of the create method, in source order; conv
\* is "truthy" for `if (input.<field>) properties.<prop> = input.<field>` and
\* "String" for `if (input.<field> !== undefined) properties.<prop> = String(...)`.
CreateFields(o) ==
  CASE o = "createContact" ->
         <<F("firstName", "firstname", "truthy"), F("lastName", "lastname", "truthy"),
           F("email", "email", "truthy"), F("phone", "phone", "truthy"),
           F("title", "jobtitle", "truthy")>>
    [] o = "createCompany" ->
         <<F("name", "name", "truthy"), F("domain", "domain", "truthy"),
           F("industry", "industry", "truthy"), F("description", "description", "truthy"),
           F("numberOfEmployees", "numberofemployees", "String"),
           F("type", "type", "truthy"), F("phone", "phone", "truthy")>>
    [] o = "createDeal" ->
         <<F("name", "dealname", "truthy"), F("amount", "amount", "String"),
           F("stageId", "dealstage", "truthy"), F("pipelineId", "pipeline", "truthy"),
           F("closeDate", "closedate", "truthy")>>
    [] o = "createProduct" ->
         <<F("name", "name", "truthy"), F("description", "description", "truthy"),
           F("price", "price", "String"), F("sku", "hs_sku", "truthy"),
           F("recurringBillingPeriod", "hs_recurring_billing_period", "truthy")>>
    [] o = "createLead" ->
         <<F("firstName", "firstname", "truthy"), F("lastName", "lastname", "truthy"),
           F("email", "email", "truthy"), F("phone", "phone", "truthy"),
           F("company", "company", "truthy"), F("status", "hs_lead_status", "truthy"),
           F("ownerId", "hubspot_owner_id", "truthy")>>

RECURSIVE applyCreateFields(_, _, _)
applyCreateFields(props, rows, fields) ==
  IF rows = <<>> THEN props
  ELSE LET row == Head(rows)
           value == fields[row.field]
       IN applyCreateFields(
            IF row.conv = "truthy" THEN setIfTruthy(props, row.prop, value)
            ELSE setIfDefined(props, row, value),
            Tail(rows), fields)

\* The `properties` object a plain create method sends.
plainCreateProperties(o, in) ==
  mergeCustomFields(applyCreateFields(NoProperties, CreateFields(o), in.fields), in.customFields)

\* ---------------------------------------------------------------------------
\* Batch operations
\* ---------------------------------------------------------------------------
BatchReadOps == {"batchReadContacts", "batchReadCompanies", "batchReadDeals", "batchReadTickets"}
BatchCreateOps ==
  {"batchCreateContacts", "batchCreateCompanies", "batchCreateDeals", "batchCreateTickets"}
BatchUpdateOps ==
  {"batchUpdateContacts", "batchUpdateCompanies", "batchUpdateDeals", "batchUpdateTickets"}
BatchArchiveOps ==
  {"batchArchiveContacts", "batchArchiveCompanies", "batchArchiveDeals", "batchArchiveTickets"}
BatchOps == BatchReadOps \cup BatchCreateOps \cup BatchUpdateOps \cup BatchArchiveOps

\* The objectType a batch method passes to batchRead/Create/Update/Archive.
BatchFamily(o) ==
  CASE o \in {"batchReadContacts", "batchCreateContacts", "batchUpdateContacts",
              "batchArchiveContacts"} -> "contacts"
    [] o \in {"batchReadCompanies", "batchCreateCompanies", "batchUpdateCompanies",
              "batchArchiveCompanies"} -> "companies"
    [] o \in {"batchReadDeals", "batchCreateDeals", "batchUpdateDeals",
              "batchArchiveDeals"} -> "deals"
    [] o \in {"batchReadTickets", "batchCreateTickets", "batchUpdateTickets",
              "batchArchiveTickets"} -> "tickets"

\* The propertyMapper a batch create or update method passes: one row per
\* guarded assignment, as in CreateFields / UpdateFields.
BatchFields(o) ==
  CASE o = "batchCreateContacts" ->
         <<F("firstName", "firstname", "truthy"), F("lastName", "lastname", "truthy"),
           F("email", "email", "truthy"), F("phone", "phone", "truthy"),
           F("title", "jobtitle", "truthy")>>
    [] o = "batchUpdateContacts" ->
         <<F("firstName", "firstname", "asis"), F("lastName", "lastname", "asis"),
           F("email", "email", "asis"), F("phone", "phone", "asis"),
           F("title", "jobtitle", "asis")>>
    [] o = "batchCreateCompanies" ->
         <<F("name", "name", "truthy"), F("domain", "domain", "truthy"),
           F("industry", "industry", "truthy"), F("description", "description", "truthy"),
           F("numberOfEmployees", "numberofemployees", "String")>>
    [] o = "batchUpdateCompanies" ->
         <<F("name", "name", "asis"), F("domain", "domain", "asis"),
           F("industry", "industry", "asis"), F("description", "description", "asis"),
           F("numberOfEmployees", "numberofemployees", "String")>>
    [] o = "batchCreateDeals" ->
         <<F("name", "dealname", "truthy"), F("amount", "amount", "String"),
           F("stageId", "dealstage", "truthy"), F("pipelineId", "pipeline", "truthy"),
           F("closeDate", "closedate", "truthy")>>
    [] o = "batchUpdateDeals" ->
         <<F("name", "dealname", "asis"), F("amount", "amount", "String"),
           F("stageId", "dealstage", "asis"), F("closeDate", "closedate", "asis")>>
    [] o = "batchCreateTickets" ->
         <<F("subject", "subject", "truthy"), F("content", "content", "truthy"),
           F("pipelineId", "hs_pipeline", "truthy"),
           F("stageId", "hs_pipeline_stage", "truthy"),
           F("priority", "hs_ticket_priority", "truthy")>>
    [] o = "batchUpdateTickets" ->
         <<F("subject", "subject", "asis"), F("content", "content", "asis"),
           F("stageId", "hs_pipeline_stage", "asis"),
           F("priority", "hs_ticket_priority", "asis")>>

\* propertyMapper(input)
batchProperties(o, item) ==
  IF o \in BatchCreateOps
  THEN applyCreateFields(NoProperties, BatchFields(o), item.fields)
  ELSE applyFields(NoProperties, BatchFields(o), item.fields)

\* The caller's inputs: ids for read and archive, input objects otherwise.
batchCallerInputs(o, in) == IF o \in BatchReadOps \cup BatchArchiveOps THEN in.ids ELSE in.inputs

\* One entry of the `inputs` array: ({ id }), ({ properties }) or
\* ({ id, properties }).
batchEntry(o, item) ==
  IF o \in BatchReadOps \cup BatchArchiveOps THEN [id |-> item]
  ELSE IF o \in BatchCreateOps THEN [properties |-> batchProperties(o, item)]
  ELSE [id |-> item.id, properties |-> batchProperties(o, item)]

\* All inputs but the last are sent, the last is left for a second request.
batchInputsSplit(o, in) ==
  LET items == batchCallerInputs(o, in)
      n == IF Len(items) > 1 THEN Len(items) - 1 ELSE Len(items)
  IN [i \in 1..n |-> batchEntry(o, items[i])]

\* The `inputs` array of the request body: ids.map(...) or inputs.map(...).
batchInputs(o, in) ==
  LET items == batchCallerInputs(o, in)
  IN [i \in 1..Len(items) |-> batchEntry(o, items[i])]

\* The request body of a batch method.
batchBody(o, in) ==
  IF o \in BatchReadOps
  THEN [inputs |-> batchInputs(o, in),
        properties |-> IF Truthy(in.properties) THEN in.properties.items
                       ELSE PropertyList(BatchFamily(o))]
  ELSE [inputs |-> batchInputs(o, in)]

\* A BatchResult that leaves the backend's errors out.
batchResultNoErrors(o, response) ==
  [status |-> response.status,
   results |-> [i \in 1..Len(response.results) |->
                  mapHubSpot(BatchFamily(o), response.results[i])],
   errors |-> Undefined]

\* { status: response.status, results: response.results.map(mapper),
\*   errors: response.errors }
batchResult(o, response) ==
  [status |-> response.status,
   results |-> [i \in 1..Len(response.results) |->
                  mapHubSpot(BatchFamily(o), response.results[i])],
   errors |-> response.errors]

\* ---------------------------------------------------------------------------
\* Lists and searches
\* ---------------------------------------------------------------------------
SearchOps ==
  {"searchContacts", "searchCompanies", "searchDeals", "searchTickets", "searchProducts",
   "searchLeads"}

ListOps ==
  {"listContacts", "listCompanies", "listDeals", "listTickets", "listProducts",
   "listLineItems", "listQuotes", "listNotes", "listMeetings", "listLeads", "listActivities",
   "listInvoices", "listOrders"}

PagedOps == ListOps \cup SearchOps

\* The objects a list or search operation asks for.
PagedFamily(o) ==
  CASE o \in {"listContacts", "searchContacts"} -> "contacts"
    [] o \in {"listCompanies", "searchCompanies"} -> "companies"
    [] o \in {"listDeals", "searchDeals"} -> "deals"
    [] o \in {"listTickets", "searchTickets"} -> "tickets"
    [] o \in {"listProducts", "searchProducts"} -> "products"
    [] o = "listLineItems" -> "line_items"
    [] o = "listQuotes" -> "quotes"
    [] o = "listNotes" -> "notes"
    [] o = "listMeetings" -> "meetings"
    [] o \in {"listLeads", "searchLeads"} -> "leads"
    [] o = "listActivities" -> "calls"
    [] o = "listInvoices" -> "invoices"
    [] o = "listOrders" -> "orders"

\* The search operations that read params.sortBy.
SortingOps == {"searchContacts", "searchCompanies", "searchDeals", "searchTickets"}

\* params?.key
Param(params, key) == IF params = Undefined THEN Undefined ELSE params[key]

\* URLSearchParams writes a comma as %2C.
RECURSIVE encodeList(_)
encodeList(names) ==
  IF names = <<>> THEN ""
  ELSE IF Len(names) = 1 THEN names[1]
  ELSE names[1] \o "%2C" \o encodeList(Tail(names))

\* new URLSearchParams({ limit: String(params?.limit || 20), properties });
\* if (params?.cursor) queryParams.set('after', params.cursor)
queryParams(o, params) ==
  "limit=" \o String(JsOr(Param(params, "limit"), Num(20))) \o
  "&properties=" \o encodeList(PropertyList(PagedFamily(o))) \o
  (IF Truthy(Param(params, "cursor")) THEN "&after=" \o String(params.cursor) ELSE "")

listRequest(o, params) ==
  [endpoint |-> "/crm/v3/objects/" \o PagedFamily(o) \o "?" \o queryParams(o, params),
   options |-> [method |-> "GET", body |-> NoBody, headers |-> NoHeaders]]

\* Names every object inherits from Object.prototype: mapping[name] finds them.
ObjectPrototypeNames ==
  {"constructor", "toString", "toLocaleString", "valueOf", "hasOwnProperty",
   "isPrototypeOf", "propertyIsEnumerable", "__proto__", "__defineGetter__",
   "__defineSetter__", "__lookupGetter__", "__lookupSetter__"}

\* const mapping: Record<string, string> = { ... }
mapping ==
  [eq |-> "EQ", neq |-> "NEQ", lt |-> "LT", lte |-> "LTE", gt |-> "GT", gte |-> "GTE",
   contains |-> "CONTAINS_TOKEN", not_contains |-> "NOT_CONTAINS_TOKEN", in |-> "IN",
   not_in |-> "NOT_IN", is_null |-> "NOT_HAS_PROPERTY", is_not_null |-> "HAS_PROPERTY"]

\* return mapping[op] || 'EQ': the lookup goes through the prototype chain,
\* and what it finds there is an object or a function, which is truthy.
mapFilterOperator(name) ==
  IF name \in DOMAIN mapping THEN Str(mapping[name])
  ELSE IF name \in ObjectPrototypeNames THEN [t |-> "inherited", name |-> name]
  ELSE Str("EQ")

\* JSON.stringify of an object: a key whose value is undefined or a function
\* is left out.
stringify(object) ==
  [k \in {key \in DOMAIN object :
            object[key] # Undefined /\
            ~(object[key].t = "inherited" /\ object[key].name # "__proto__")} |-> object[k]]

\* ({ propertyName: f.field, operator: this.mapFilterOperator(f.operator), value: f.value })
filterEntry(f) ==
  stringify([propertyName |-> f.field, operator |-> mapFilterOperator(String(f.operator)),
             value |-> f.value])

\* One filter group for each filter.
filterGroupsEach(filters) ==
  [i \in 1..Len(filters) |-> [filters |-> <<filterEntry(filters[i])>>]]

\* body.filterGroups = [{ filters: params.filters.map(...) }]
filterGroups(filters) ==
  <<[filters |-> [i \in 1..Len(filters) |-> filterEntry(filters[i])]]>>

\* params.sortOrder === 'desc' ? 'DESCENDING' : 'ASCENDING'
direction(sortOrder) == IF sortOrder = Str("desc") THEN "DESCENDING" ELSE "ASCENDING"

\* The body of a search<Family> call.
searchBody(o, params) ==
  LET base == ("limit" :> JsOr(params.limit, Num(20))) @@
              ("properties" :> PropertyList(PagedFamily(o)))
      query == IF Truthy(params.query) THEN "query" :> params.query ELSE NoProperties
      after == IF Truthy(params.cursor) THEN "after" :> params.cursor ELSE NoProperties
      groups == IF Truthy(params.filters) /\ Len(params.filters.items) > 0
                THEN "filterGroups" :> filterGroups(params.filters.items)
                ELSE NoProperties
      sorts == IF o \in SortingOps /\ Truthy(params.sortBy)
               THEN "sorts" :> <<[propertyName |-> params.sortBy,
                                  direction |-> direction(params.sortOrder)]>>
               ELSE NoProperties
  IN sorts @@ groups @@ after @@ query @@ base

searchRequest(o, params) ==
  [endpoint |-> "/crm/v3/objects/" \o PagedFamily(o) \o "/search",
   options |-> [method |-> "POST", body |-> searchBody(o, params), headers |-> NoHeaders]]

\* response.paging?.next?.after
nextAfter(response) ==
  IF "paging" \in DOMAIN response
  THEN IF "next" \in DOMAIN response.paging
       THEN Str(response.paging["next"].after)
       ELSE Undefined
  ELSE Undefined

\* More pages as long as the page holds items.
hasMoreWhileItems(response) == Len(response.results) > 0

\* hasMore: !!response.paging?.next?.after
hasMore(response) == Truthy(nextAfter(response))

\* The PaginatedResponse of a list or search call.
paginated(o, response) ==
  LET page == [items |-> [i \in 1..Len(response.results) |->
                            IF o = "listActivities"
                            THEN mapHubSpotActivity(response.results[i], "call")
                            ELSE mapHubSpot(PagedFamily(o), response.results[i])],
               count |-> Len(response.results),
               hasMore |-> hasMore(response),
               nextCursor |-> nextAfter(response)]
  IN IF o \in SearchOps
     THEN ("total" :> (IF "total" \in DOMAIN response THEN Num(response.total) ELSE Undefined))
          @@ page
     ELSE page

\* ---------------------------------------------------------------------------
\* Pipelines
\* ---------------------------------------------------------------------------
PipelineListOps == {"listPipelines", "listTicketPipelines"}
PipelineOps == PipelineListOps \cup {"getPipeline", "createPipeline", "updatePipeline"}

\* Array.prototype.sort with (a, b) => a.displayOrder - b.displayOrder: the
\* sort is stable, so a stage goes behind the stages that do not come after it.
insertStage(sorted, s) ==
  LET before == {i \in DOMAIN sorted : sorted[i].displayOrder - s.displayOrder <= 0}
      k == IF before = {} THEN 0 ELSE CHOOSE i \in before : \A j \in before : j <= i
  IN SubSeq(sorted, 1, k) \o <<s>> \o SubSeq(sorted, k + 1, Len(sorted))

RECURSIVE sortPrefix(_, _)
sortPrefix(stages, n) ==
  IF n = 0 THEN <<>> ELSE insertStage(sortPrefix(stages, n - 1), stages[n])

\* The stages as the backend sent them.
sortStagesBackendOrder(stages) == stages

\* stages.sort((a, b) => a.displayOrder - b.displayOrder)
sortStages(stages) == sortPrefix(stages, Len(stages))

\* .map((s) => ({ id, name: s.label, order: s.displayOrder, probability, isClosed }))
mapStage(s) ==
  [id |-> s.id, name |-> s.label, order |-> s.displayOrder,
   probability |-> IF Truthy(s.metadata.probability)
                   THEN parseNumber(s.metadata.probability.s) ELSE Undefined,
   isClosed |-> s.metadata.isClosed = Str("true")]

\* { id: p.id, name: p.label, stages: p.stages.sort(...).map(...) }
mapPipeline(p) ==
  [id |-> p.id, name |-> p.label,
   stages |-> LET sorted == sortStages(p.stages)
              IN [i \in 1..Len(sorted) |-> mapStage(sorted[i])]]

\* value?.toString() || fallback
toStringOr(v, fallback) ==
  IF v = Undefined THEN fallback
  ELSE IF String(v) = "" THEN fallback ELSE String(v)

\* The metadata createPipeline sends for a stage of its input.
stageMetadata(s) ==
  [probability |-> toStringOr(IF s.metadata = Undefined THEN Undefined
                              ELSE s.metadata.probability, "0"),
   isClosed |-> toStringOr(IF s.metadata = Undefined THEN Undefined
                           ELSE s.metadata.isClosed, "false")]

\* The body of createPipeline.
createPipelineBody(in) ==
  [label |-> in.label,
   displayOrder |-> JsOr(in.displayOrder, Num(0)),
   stages |-> [i \in 1..Len(in.stages) |->
                 [label |-> in.stages[i].label, displayOrder |-> in.stages[i].displayOrder,
                  metadata |-> stageMetadata(in.stages[i])]]]

\* The body of updatePipeline: the fields of the input that are not undefined.
updatePipelineBody(in) ==
  LET label == IF in.label # Undefined THEN "label" :> in.label ELSE NoProperties
  IN IF in.displayOrder # Undefined
     THEN ("displayOrder" :> in.displayOrder) @@ label
     ELSE label

\* Method, endpoint and body of a pipeline operation that takes arguments.
pipelineRequest(o, in) ==
  CASE o = "getPipeline" ->
         [endpoint |-> "/crm/v3/pipelines/" \o in.objectType \o "/" \o in.pipelineId,
          options |-> [method |-> "GET", body |-> NoBody, headers |-> NoHeaders]]
    [] o = "createPipeline" ->
         [endpoint |-> "/crm/v3/pipelines/" \o in.objectType,
          options |-> [method |-> "POST", body |-> createPipelineBody(in.input),
                       headers |-> NoHeaders]]
    [] o = "updatePipeline" ->
         [endpoint |-> "/crm/v3/pipelines/" \o in.objectType \o "/" \o in.pipelineId,
          options |-> [method |-> "PATCH", body |-> updatePipelineBody(in.input),
                       headers |-> NoHeaders]]

\* ---------------------------------------------------------------------------
\* Associations
\* ---------------------------------------------------------------------------
AssociationOps == {"createAssociation", "deleteAssociation"}

\* The link path with the object types of the two ends exchanged.
associationPathReversed(in) ==
  "/crm/v3/objects/" \o in.toObjectType \o "/" \o in.toObjectId \o "/associations/" \o
    in.fromObjectType \o "/" \o in.fromObjectId \o "/" \o in.associationTypeId

\* `/crm/v3/objects/${fromObjectType}/${fromObjectId}/associations/${toObjectType}/
\*  ${toObjectId}/${associationTypeId}`
associationPath(in) ==
  "/crm/v3/objects/" \o in.fromObjectType \o "/" \o in.fromObjectId \o "/associations/" \o
    in.toObjectType \o "/" \o in.toObjectId \o "/" \o in.associationTypeId

\* createAssociation / deleteAssociation: request(path, { method })
associationRequest(o, in) ==
  [endpoint |-> associationPath(in),
   options |-> [method |-> IF o = "createAssociation" THEN "PUT" ELSE "DELETE",
                body |-> NoBody, headers |-> NoHeaders]]

\* ---------------------------------------------------------------------------
\* Running an operation
\* ---------------------------------------------------------------------------
ObjectSegment(o) ==
  CASE o = "updateContact" -> "contacts" [] o = "updateCompany" -> "companies"
    [] o = "updateDeal" -> "deals" [] o = "updateTicket" -> "tickets"
    [] o = "updateProduct" -> "products" [] o = "updateLineItem" -> "line_items"
    [] o = "updateQuote" -> "quotes" [] o = "updateNote" -> "notes"
    [] o = "updateMeeting" -> "meetings" [] o = "updateLead" -> "leads"

\* The first request of an operation: endpoint and options passed to request().
primaryRequest(o, in) ==
  IF o \in UpdateOps
  THEN [endpoint |-> "/crm/v3/objects/" \o ObjectSegment(o) \o "/" \o in.id,
        options |-> [method |-> "PATCH", body |-> [properties |-> updateProperties(o, in)],
                     headers |-> NoHeaders]]
  ELSE IF o \in CreateAssocOps
  THEN [endpoint |-> createEndpoint(o, in),
        options |-> [method |-> "POST", body |-> [properties |-> createProperties(o, in)],
                     headers |-> NoHeaders]]
  ELSE IF o \in BatchOps /\ in # NoInput
  THEN [endpoint |-> OpTable[o].path,
        options |-> [method |-> "POST", body |-> batchBody(o, in), headers |-> NoHeaders]]
  ELSE IF o \in PipelineOps /\ in # NoInput
  THEN pipelineRequest(o, in)
  ELSE IF o \in AssociationOps /\ in # NoInput
  THEN associationRequest(o, in)
  ELSE IF o \in ListOps /\ in # NoInput
  THEN listRequest(o, in)
  ELSE IF o \in SearchOps /\ in # NoInput
  THEN searchRequest(o, in)
  ELSE IF o \in PlainCreateOps /\ in # NoInput
  THEN [endpoint |-> OpTable[o].path,
        options |-> [method |-> "POST", body |-> [properties |-> plainCreateProperties(o, in)],
                     headers |-> NoHeaders]]
  ELSE [endpoint |-> OpTable[o].path,
        options |-> [method |-> OpTable[o].method,
                     body |-> IF OpTable[o].method \in {"POST", "PATCH"} THEN OpaqueBody ELSE NoBody,
                     headers |-> NoHeaders]]

\* testConnection: try { await request } catch (error) { ... }
testConnection(outcome) ==
  IF outcome.ok
  THEN [state |-> "returned",
        value |-> [connected |-> TRUE, message |-> "Successfully connected to HubSpot CRM"]]
  ELSE [state |-> "returned",
        value |-> [connected |-> FALSE, message |-> outcome.error.message]]

\* An operation without any catch, testConnection included.
raiseUncaught(o, error) == [state |-> "thrown", error |-> error]

\* An error raised inside an operation: only testConnection has a catch.
raise(o, error) ==
  IF o = "testConnection"
  THEN testConnection([ok |-> FALSE, error |-> error])
  ELSE [state |-> "thrown", error |-> error]

\* A method that sends a failed association request a second time.
afterFailureRetry(phase, failed) ==
  IF phase = "assoc" THEN <<failed>> ELSE <<>>

\* A method that undoes a failed link with a DELETE.
afterFailureRollback(phase, failed) ==
  IF phase = "assoc"
  THEN <<[endpoint |-> failed.endpoint,
          options |-> [method |-> "DELETE", body |-> NoBody, headers |-> NoHeaders]]>>
  ELSE <<>>

\* The requests an operation issues once one of its requests has failed: no
\* method catches the error, so none.
afterFailure(phase, failed) == <<>>

\* All association requests started together (Promise.all).
nextRequestsAll(queue) == queue

\* Each association request is awaited before the next one is built.
nextRequests(queue) == <<Head(queue)>>

\* The entity a method returns, mapped from the object its create/get returned.
mapResponse(o, object) ==
  IF o \in BatchOps THEN batchResult(o, object)
  ELSE IF o \in PagedOps /\ "results" \in DOMAIN object THEN paginated(o, object)
  ELSE IF o \in PipelineListOps /\ "results" \in DOMAIN object
  THEN [i \in 1..Len(object.results) |-> mapPipeline(object.results[i])]
  ELSE IF o \in PipelineOps /\ "stages" \in DOMAIN object
  THEN mapPipeline(object)
  ELSE [id |-> object.id]

Pending == [state |-> "pending"]
Returned(v) == [state |-> "returned", value |-> v]

\* Methods that call response.results.map(...) on the value request() returned.
ReadsResults ==
  {"listContacts", "searchContacts", "listCompanies", "listDeals", "listPipelines",
   "listActivities", "searchCompanies", "searchDeals", "listTickets", "searchTickets",
   "listTicketPipelines", "listProducts", "searchProducts", "listLineItems", "listQuotes",
   "listNotes", "listMeetings", "listLeads", "searchLeads", "listAssociations",
   "getAssociationLabels", "listProperties", "listPropertyGroups", "listOwners",
   "listWebhookSubscriptions", "listInvoices", "listOrders"}
    \cup BatchReadOps \cup BatchCreateOps \cup BatchUpdateOps

\* The end of a method whose requests all succeeded: it maps the object it
\* got, and fails where it dereferences a part the object does not have.
complete(o, object) ==
  IF \/ o \in ReadsResults /\ "results" \notin DOMAIN object
     \/ o \in PipelineOps \ PipelineListOps /\ "stages" \notin DOMAIN object
  THEN raise(o, [name |-> "TypeError", message |-> "Cannot read properties of undefined"])
  ELSE Returned(mapResponse(o, object))

\* What the operation does with the outcome of the request `req`: its result
\* (if it ends here), the requests it issues now and those left for later.
continue(o, in, phase, prim, rest, req, outcome, stillFlying) ==
  IF ~outcome.ok
  THEN [result |-> raise(o, outcome.error), issue |-> afterFailure(phase, req),
        rest |-> <<>>, primary |-> prim]
  ELSE IF phase = "primary"
  THEN IF o = "testConnection"
       THEN [result |-> testConnection(outcome), issue |-> <<>>, rest |-> <<>>, primary |-> prim]
       ELSE IF ~OpTable[o].uses
       THEN [result |-> Returned(Undefined), issue |-> <<>>, rest |-> <<>>, primary |-> prim]
       ELSE IF outcome.value = Undefined
       THEN [result |-> raise(o, [name |-> "TypeError",
                                  message |-> "Cannot read properties of undefined"]),
             issue |-> <<>>, rest |-> <<>>, primary |-> prim]
       ELSE LET links == associations(o, in, outcome.value.id)
            IN IF links = <<>>
               THEN [result |-> complete(o, outcome.value), issue |-> <<>>,
                     rest |-> <<>>, primary |-> outcome.value]
               ELSE [result |-> Pending, issue |-> nextRequests(links),
                     rest |-> SubSeq(links, Len(nextRequests(links)) + 1, Len(links)),
                     primary |-> outcome.value]
  ELSE IF stillFlying > 0
  THEN [result |-> Pending, issue |-> <<>>, rest |-> rest, primary |-> prim]
  ELSE IF rest = <<>>
  THEN [result |-> complete(o, prim), issue |-> <<>>, rest |-> <<>>, primary |-> prim]
  ELSE [result |-> Pending, issue |-> nextRequests(rest),
        rest |-> SubSeq(rest, Len(nextRequests(rest)) + 1, Len(rest)), primary |-> prim]

\* ---------------------------------------------------------------------------
\* Mock backend
\* ---------------------------------------------------------------------------
EntityId == "101"
AllProps == UNION {PropNames(o) : o \in UpdateOps}

InitBackend ==
  [entities |-> {}, links |-> {}, store |-> [p \in AllProps |-> "old"]]

\* The backend acts on a request exactly when it answers with a 2xx status: a
\* create stores the object, a PUT link stores the link (once, however often it
\* is put), a DELETE of a link removes it, a PATCH overwrites the properties it
\* carries and leaves the others alone.
serve(b, o, phase, req, answer) ==
  IF answer.failed \/ ~(answer.response.status >= 200 /\ answer.response.status <= 299)
  THEN b
  ELSE IF phase = "primary" /\ o \in CreateAssocOps
  THEN [b EXCEPT !.entities = @ \cup {EntityId}]
  ELSE IF phase = "primary" /\ o \in PlainCreateOps /\ req.options.body # OpaqueBody
  THEN [b EXCEPT !.entities = @ \cup {EntityId}, !.store = req.options.body.properties]
  ELSE IF phase = "primary" /\ o \in UpdateOps
  THEN [b EXCEPT !.store = req.options.body.properties @@ @]
  ELSE IF req.options.method = "PUT" /\ (phase = "assoc" \/ o = "createAssociation")
  THEN [b EXCEPT !.links = @ \cup {req.endpoint}]
  ELSE IF req.options.method = "DELETE" /\ o = "deleteAssociation"
  THEN [b EXCEPT !.links = @ \ {req.endpoint}]
  ELSE b

\* ---------------------------------------------------------------------------
\* Answers of the transport
\* ---------------------------------------------------------------------------
NoAnswer == [none |-> TRUE]
Header(chars) == [t |-> "header", chars |-> chars]

AllAnswers == {NetworkFailure} \cup {Delivered(r) : r \in Responses}

\* Responses that differ in a part request() reads for their status.
OpResponses ==
  {r \in Responses :
     /\ r.status = 429 => r.body = NotJson /\ r.retryAfter \in {Null, Header(<<"3", "0">>), Header(<<"a">>)}
     /\ r.status # 429 => r.retryAfter = Null
     /\ r.status \in {204, 401, 403} => r.body = NotJson
     /\ r.status \in {200, 201} => r.body \in {NotJson, Entity}}

OpAnswers == {NetworkFailure} \cup {Delivered(r) : r \in OpResponses}

UpdateAnswers ==
  {NetworkFailure,
   Delivered([status |-> 200, retryAfter |-> Null, body |-> Entity]),
   Delivered([status |-> 204, retryAfter |-> Null, body |-> NotJson]),
   Delivered([status |-> 500, retryAfter |-> Null, body |-> NotJson])}

\* ---------------------------------------------------------------------------
\* The Worker: POST /mcp, the adapter instances it creates and their tool calls
\* ---------------------------------------------------------------------------
\* A Worker that has handled no request: no adapter instance, no tool call.
NoWorker == [clients |-> <<>>, handled |-> <<>>, tasks |-> <<>>]

\* headers.get(name)
Get(headers, name) == IF name \in DOMAIN headers THEN headers[name] ELSE Null

\* parseTenantCredentials(request): headers.get(...) || undefined
parseTenantCredentials(req) ==
  Creds(JsOr(Get(req.headers, "X-CRM-API-Key"), Undefined),
        JsOr(Get(req.headers, "X-CRM-Access-Token"), Undefined),
        JsOr(Get(req.headers, "X-CRM-Base-URL"), Undefined))

\* A check that lets every bundle through.
validateCredentialsAny(creds) == [threw |-> FALSE]

\* validateCredentials(credentials)
validateCredentials(creds) ==
  IF ~Truthy(creds.apiKey) /\ ~Truthy(creds.accessToken)
  THEN [threw |-> TRUE,
        error |-> [name |-> "Error",
                   message |-> "Missing credentials. Provide either X-CRM-API-Key or X-CRM-Access-Token header."]]
  ELSE [threw |-> FALSE]

\* constructor(credentials)
CrmClientImpl(creds) ==
  [credentials |-> creds, baseUrl |-> String(JsOr(creds.baseUrl, Str(API_BASE_URL)))]

\* One adapter kept for the whole Worker and given the latest credentials.
createCrmClientShared(clients, creds) ==
  [i \in 1..(Len(clients) + 1) |-> CrmClientImpl(creds)]

\* createCrmClient(credentials), called by createStatelessServer: a new
\* instance beside those of the requests still being served.
createCrmClient(clients, creds) == Append(clients, CrmClientImpl(creds))

Unauthorized(message) ==
  [status |-> 401,
   body |-> [error |-> "Unauthorized", message |-> message,
             required_headers |-> <<"X-CRM-API-Key or X-CRM-Access-Token">>]]

\* The /mcp branch with the server created ahead of the credential check.
mcpPostCreateFirst(clients, req) ==
  LET creds == parseTenantCredentials(req)
      checked == validateCredentials(creds)
      created == createCrmClient(clients, creds)
  IN IF checked.threw
     THEN [clients |-> created, client |-> 0, response |-> Unauthorized(checked.error.message)]
     ELSE [clients |-> created, client |-> Len(created),
           response |-> [status |-> 200, body |-> [handler |-> "createMcpHandler"]]]

\* if (url.pathname === '/mcp' && request.method === 'POST') { ... }
mcpPost(clients, req) ==
  LET creds == parseTenantCredentials(req)
      checked == validateCredentials(creds)
  IN IF checked.threw
     THEN [clients |-> clients, client |-> 0, response |-> Unauthorized(checked.error.message)]
     ELSE LET created == createCrmClient(clients, creds)
          IN [clients |-> created, client |-> Len(created),
              response |-> [status |-> 200, body |-> [handler |-> "createMcpHandler"]]]

\* The Worker's fetch(request, env, ctx).
workerFetch(clients, req) ==
  IF req.pathname = "/health"
  THEN [clients |-> clients, client |-> 0,
        response |-> [status |-> 200, body |-> [status |-> "ok", server |-> "primrose-mcp-hubspot"]]]
  ELSE IF req.pathname = "/mcp" /\ req.method = "POST"
  THEN mcpPost(clients, req)
  ELSE IF req.pathname = "/sse"
  THEN [clients |-> clients, client |-> 0,
        response |-> [status |-> 501,
                      body |-> "SSE endpoint requires Durable Objects. Enable in wrangler.jsonc."]]
  ELSE [clients |-> clients, client |-> 0,
        response |-> [status |-> 200, body |-> [name |-> "primrose-mcp-hubspot"]]]

\* const url = `${this.baseUrl}${endpoint}` and the fetch options of request(),
\* for the instance `client`.
clientFetchArgs(client, endpoint, options) ==
  LET args == fetchArgs(client.credentials, endpoint, options)
  IN IF args.threw THEN args
     ELSE [threw |-> FALSE, call |-> [args.call EXCEPT !.url = client.baseUrl \o endpoint]]

\* formatResponse(data, format, kind) of utils/formatters: the success payload.
formatResponse(data) == [content |-> <<[type |-> "text", text |-> [stringified |-> data]]>>]

\* formatError(error) of utils/formatters: the failure payload, marked isError
\* and carrying the error's message.
formatError(error) ==
  [content |-> <<[type |-> "text", text |-> "Error: " \o error.message]>>, isError |-> TRUE]

\* An exception that leaves the handler.
Escaped(error) == [escaped |-> TRUE, error |-> error]

\* The handler without its try/catch.
toolHandlerNoCatch(o, settled) ==
  IF settled.state = "thrown" THEN Escaped(settled.error)
  ELSE formatResponse(settled.value)

\* async (input) => { try { const r = await client.<op>(input); return <success> }
\*                    catch (error) { return formatError(error) } }
\* given how the adapter call settled.
toolHandler(o, settled) ==
  IF o = "testConnection"
  THEN IF settled.state = "thrown"
       THEN [content |-> <<[type |-> "text",
                            text |-> "Connection failed: " \o settled.error.message]>>,
             isError |-> TRUE]
       ELSE [content |-> <<[type |-> "text", text |-> [stringified |-> settled.value]]>>]
  ELSE IF settled.state = "thrown" THEN formatError(settled.error)
  ELSE IF o = "createTicket"
  THEN [content |-> <<[type |-> "text",
                       text |-> [stringified |-> [success |-> TRUE, message |-> "Ticket created",
                                                  ticket |-> settled.value]]]>>]
  ELSE IF o = "batchCreateContacts"
  THEN [content |-> <<[type |-> "text",
                       text |-> [stringified |->
                                   [success |-> TRUE,
                                    message |-> "Created " \o ToString(Len(settled.value.results))
                                                \o " contacts",
                                    result |-> settled.value]]]>>]
  ELSE formatResponse(settled.value)

\* What the handler has returned once the adapter call settled.
reply(o, settled) == IF settled = Pending THEN Pending ELSE toolHandler(o, settled)

\* The tool call once request() has built, or failed to build, the arguments
\* of its first fetch.
startedTask(c, client, o, in, req, args) ==
  [client |-> c, owner |-> client, op |-> o, input |-> in,
   pc |-> IF args.threw THEN "done" ELSE "primary",
   calls |-> IF args.threw THEN <<>> ELSE <<args.call>>,
   flying |-> IF args.threw THEN <<>> ELSE <<req>>,
   pending |-> <<>>, primary |-> Undefined, answers |-> <<>>,
   result |-> IF args.threw THEN raise(o, args.error) ELSE Pending,
   reply |-> IF args.threw THEN reply(o, raise(o, args.error)) ELSE Pending]

requestedTask(c, client, o, in, req) ==
  startedTask(c, client, o, in, req, clientFetchArgs(client, req.endpoint, req.options))

\* A tool call on the instance numbered `c`: the adapter method runs up to
\* its first await.
startTask(c, client, o, in) == requestedTask(c, client, o, in, primaryRequest(o, in))

\* The tool call after its method resumed with the step `c` and built the
\* arguments `args` of the requests that step issues.
resumedTask(task, answer, c, args) ==
  LET authThrew == c.issue # <<>> /\ args[1].threw
      nowFlying == IF authThrew THEN Tail(task.flying) ELSE Tail(task.flying) \o c.issue
      settled == IF task.result # Pending THEN task.result
                 ELSE IF authThrew THEN raise(task.op, args[1].error) ELSE c.result
  IN [task EXCEPT
        !.reply = IF nowFlying = <<>> THEN reply(task.op, settled) ELSE Pending,
        !.primary = c.primary,
        !.answers = Append(@, answer),
        !.result = settled,
        !.flying = nowFlying,
        !.pending = IF authThrew THEN <<>> ELSE c.rest,
        !.calls = IF authThrew THEN @ ELSE @ \o [i \in 1..Len(c.issue) |-> args[i].call],
        !.pc = IF nowFlying = <<>> THEN "done" ELSE "assoc"]

continuedTask(client, task, answer, c) ==
  resumedTask(task, answer, c,
              [i \in 1..Len(c.issue) |->
                 clientFetchArgs(client, c.issue[i].endpoint, c.issue[i].options)])

\* The transport answers the request a tool call waits for and its method
\* resumes, on the instance `client`.
resumeTask(client, task, answer) ==
  continuedTask(client, task, answer,
                continue(task.op, task.input, task.pc, task.primary, task.pending,
                         Head(task.flying), fetchOutcome(answer), Len(task.flying) - 1))

\* ---------------------------------------------------------------------------
\* Actions
\* ---------------------------------------------------------------------------
Init ==
  /\ credentials \in TenantCredentials
  /\ pc = "idle"
  /\ op = "none"
  /\ input = NoInput
  /\ calls = <<>>
  /\ flying = <<>>
  /\ pending = <<>>
  /\ primary = Undefined
  /\ net = NoAnswer
  /\ result = Pending
  /\ backend = InitBackend
  /\ earlier = <<>>
  /\ worker = NoWorker

\* A caller invokes operation o with input in: the method runs up to its first
\* `await fetch`.
Invoke(o, in) ==
  /\ pc = "idle"
  /\ LET req == primaryRequest(o, in)
         args == fetchArgs(credentials, req.endpoint, req.options)
     IN /\ op' = o
        /\ input' = in
        /\ IF args.threw
           THEN /\ pc' = "done"
                /\ result' = raise(o, args.error)
                /\ UNCHANGED <<calls, flying>>
           ELSE /\ pc' = "primary"
                /\ calls' = <<args.call>>
                /\ flying' = <<req>>
                /\ UNCHANGED result
  /\ UNCHANGED <<credentials, pending, primary, net, backend, earlier, worker>>

\* The transport answers the oldest request in flight and the method resumes.
Respond(answer) ==
  /\ pc \in {"primary", "assoc"}
  /\ flying # <<>>
  /\ LET req == Head(flying)
         c == continue(op, input, pc, primary, pending, req, fetchOutcome(answer),
                       Len(flying) - 1)
         args == [i \in 1..Len(c.issue) |->
                    fetchArgs(credentials, c.issue[i].endpoint, c.issue[i].options)]
         authThrew == c.issue # <<>> /\ args[1].threw
     IN /\ net' = answer
        /\ backend' = serve(backend, op, pc, req, answer)
        /\ primary' = c.primary
        /\ IF authThrew
           THEN /\ result' = IF result = Pending THEN raise(op, args[1].error) ELSE result
                /\ flying' = Tail(flying)
                /\ pending' = <<>>
                /\ UNCHANGED calls
           ELSE /\ result' = IF result = Pending THEN c.result ELSE result
                /\ flying' = Tail(flying) \o c.issue
                /\ pending' = c.rest
                /\ calls' = calls \o [i \in 1..Len(c.issue) |-> args[i].call]
        /\ pc' = IF flying' = <<>> THEN "done" ELSE "assoc"
  /\ UNCHANGED <<credentials, op, input, earlier, worker>>

InvokeGeneric == \E o \in GenericOps : Invoke(o, NoInput)
InvokeCreate == \E o \in CreateAssocOps : \E in \in CreateInputs(o) : Invoke(o, in)
InvokeUpdate == \E o \in UpdateOps : \E in \in FewUpdateInputs(o) : Invoke(o, in)
Answer == \E answer \in OpAnswers : Respond(answer)

Next == InvokeGeneric \/ InvokeCreate \/ InvokeUpdate \/ Answer

Spec == Init /\ [][Next]_vars

\* Update operations over all their inputs.
InvokeAnyUpdate == \E o \in UpdateOps : \E in \in UpdateInputs(o) : Invoke(o, in)
AnswerUpdate == \E answer \in UpdateAnswers : Respond(answer)

NextUpdate == InvokeAnyUpdate \/ AnswerUpdate

InitUpdate == Init /\ credentials = Creds(Str("secret"), Undefined, Undefined)

SpecUpdate == InitUpdate /\ [][NextUpdate]_vars

\* The request primitive alone, over every response.
CallRequest(o, answer) ==
  /\ pc = "idle"
  /\ LET req == primaryRequest(o, NoInput)
         r == request(credentials, req.endpoint, req.options, answer)
     IN /\ op' = "request"
        /\ calls' = r.fetched
        /\ net' = IF r.fetched = <<>> THEN NoAnswer ELSE answer
        /\ result' = IF r.outcome.ok THEN Returned(r.outcome.value)
                     ELSE [state |-> "thrown", error |-> r.outcome.error]
        /\ pc' = "done"
  /\ UNCHANGED <<credentials, input, flying, pending, primary, backend, earlier, worker>>

NextRequest == \E o \in {"getContact", "deleteContact"} : \E answer \in AllAnswers : CallRequest(o, answer)

SpecRequest == Init /\ [][NextRequest]_vars

\* ---------------------------------------------------------------------------
\* Reading back what was written
\* ---------------------------------------------------------------------------
\* The get operation of a family.
GetOp(family) ==
  CASE family = "contacts" -> "getContact" [] family = "companies" -> "getCompany"
    [] family = "deals" -> "getDeal" [] family = "tickets" -> "getTicket"
    [] family = "products" -> "getProduct" [] family = "line_items" -> "getLineItem"
    [] family = "quotes" -> "getQuote" [] family = "notes" -> "getNote"
    [] family = "meetings" -> "getMeeting" [] family = "leads" -> "getLead"

\* The id a caller reads back after operation o: the one it updated, or the
\* one the create returned.
WrittenId == IF op \in UpdateOps THEN input.id ELSE primary.id

\* get<Family>(id) after a write that returned, against a backend that
\* answers 200 with the stored object.
GetAfterWrite ==
  /\ pc = "done"
  /\ op \in UpdateOps \cup PlainCreateOps
  /\ result.state = "returned"
  /\ LET family == FamilyOf(op)
         req == primaryRequest(GetOp(family), NoInput)
         answer == Delivered([status |-> 200, retryAfter |-> Null,
                              body |-> backendObject(backend, family, WrittenId)])
         r == request(credentials, req.endpoint, req.options, answer)
     IN /\ calls' = calls \o r.fetched
        /\ result' = IF r.outcome.ok
                     THEN Returned(mapHubSpot(family, r.outcome.value))
                     ELSE [state |-> "thrown", error |-> r.outcome.error]
        /\ pc' = "read"
  /\ UNCHANGED <<credentials, op, input, flying, pending, primary, net, backend, earlier, worker>>

\* The fields the input type of an update or plain create operation declares
\* (customFields apart).
DeclaredFields(o) ==
  CASE o = "updateContact" -> {"firstName", "lastName", "email", "phone", "title", "companyId"}
    [] o = "createContact" ->
         {"firstName", "lastName", "email", "phone", "title", "companyId", "source"}
    [] o \in {"updateCompany", "createCompany"} ->
         {"name", "domain", "industry", "description", "numberOfEmployees", "type", "phone",
          "address"}
    [] o = "updateDeal" ->
         {"name", "amount", "currency", "stageId", "closeDate", "status", "closeReason"}
    [] o = "createDeal" ->
         {"name", "amount", "currency", "stageId", "pipelineId", "closeDate", "companyId",
          "contactIds"}
    [] o = "updateTicket" -> {"subject", "content", "status", "priority", "stageId", "ownerId"}
    [] o \in {"updateProduct", "createProduct"} ->
         {"name", "description", "price", "sku", "recurringBillingPeriod"}
    [] o = "updateLineItem" -> {"name", "quantity", "price", "discount"}
    [] o = "updateQuote" -> {"title", "expirationDate", "status"}
    [] o = "updateNote" -> {"body", "timestamp", "ownerId"}
    [] o = "updateMeeting" -> {"title", "body", "startTime", "endTime", "outcome", "ownerId"}
    [] o \in {"updateLead", "createLead"} ->
         {"firstName", "lastName", "email", "phone", "company", "status", "source", "ownerId"}

\* Fields the input types declare as number.
NumberFields == {"amount", "price", "quantity", "discount", "numberOfEmployees"}

\* A supplied value of the field's declared type: empty/zero or filled.
SuppliedValue(field, profile) ==
  CASE field \in NumberFields -> (IF profile = "empty" THEN Num(0) ELSE Num(5))
    [] field = "contactIds" -> (IF profile = "empty" THEN Array(<<>>) ELSE Array(<<"c1">>))
    [] field = "address" ->
         (IF profile = "empty" THEN Object(<<>>)
          ELSE Object(<<[key |-> "city", value |-> Str("Oslo")]>>))
    [] OTHER -> (IF profile = "empty" THEN Str("") ELSE Str("new"))

\* At most this many fields are supplied in one round-trip input.
MaxSupplied == 2

FirstProp(o) == IF o \in UpdateOps THEN UpdateFields(o)[1].prop ELSE CreateFields(o)[1].prop

RoundTripCustomFields(o) ==
  IF o \in UpdateOps /\ ~HasCustomFields(o) THEN {Undefined}
  ELSE {Undefined, Object(<<[key |-> FirstProp(o), value |-> Str("cv")]>>)}

RoundTripInputs(o) ==
  {[id |-> "42",
    fields |-> [f \in DeclaredFields(o) |->
                  IF f \in S THEN SuppliedValue(f, profile) ELSE Undefined],
    customFields |-> cf] :
     S \in {T \in SUBSET DeclaredFields(o) : Cardinality(T) <= MaxSupplied},
     profile \in {"empty", "filled"}, cf \in RoundTripCustomFields(o)}

InvokeDeclaredUpdate == \E o \in UpdateOps : \E in \in RoundTripInputs(o) : Invoke(o, in)
InvokePlainCreate == \E o \in PlainCreateOps : \E in \in RoundTripInputs(o) : Invoke(o, in)

NextRoundTrip == InvokeDeclaredUpdate \/ InvokePlainCreate \/ AnswerUpdate \/ GetAfterWrite

SpecRoundTrip == InitUpdate /\ [][NextRoundTrip]_vars

\* ---------------------------------------------------------------------------
\* Batch calls
\* ---------------------------------------------------------------------------
\* Longest batch drawn from the small alphabets, and one batch beyond the
\* advisory cap of 100 inputs.
MaxBatch == 2
BigBatch == 101

BatchIds == {"1", "2"}

BatchFieldNames(o) == {BatchFields(o)[i].field : i \in DOMAIN BatchFields(o)}

BatchNumeric(o, f) ==
  \E i \in DOMAIN BatchFields(o) : BatchFields(o)[i].field = f /\ BatchFields(o)[i].conv = "String"

\* Two input objects: one with its first field filled, one with every field
\* empty or zero.
BatchItems(o) ==
  {[id |-> "1",
    fields |-> [f \in BatchFieldNames(o) |->
                  IF f = BatchFields(o)[1].field THEN Str("new") ELSE Undefined]],
   [id |-> "2",
    fields |-> [f \in BatchFieldNames(o) |->
                  IF BatchNumeric(o, f) THEN Num(0) ELSE Str("")]]}

BatchIdLists ==
  SeqsUpTo(BatchIds, MaxBatch) \cup {[i \in 1..BigBatch |-> ToString(i)]}

BatchItemLists(o) ==
  SeqsUpTo(BatchItems(o), MaxBatch) \cup
    {[i \in 1..BigBatch |-> CHOOSE item \in BatchItems(o) : item.id = "1"]}

BatchCallInputs(o) ==
  IF o \in BatchReadOps
  THEN {[ids |-> ids, properties |-> ps] :
          ids \in BatchIdLists, ps \in {Undefined, Array(<<"email", "custom_field">>)}}
  ELSE IF o \in BatchArchiveOps
  THEN {[ids |-> ids] : ids \in BatchIdLists}
  ELSE {[inputs |-> items] : items \in BatchItemLists(o)}

\* Objects and per-item errors a batch response carries.
BatchObjects(family) ==
  {[id |-> "1", properties |-> (PropertyList(family)[1] :> "v1"),
    createdAt |-> ServerTime, updatedAt |-> ServerTime],
   [id |-> "2", properties |-> NoProperties,
    createdAt |-> ServerTime, updatedAt |-> ServerTime]}

BatchError == [status |-> "error", message |-> "Duplicate value"]

BatchBodies(family) ==
  {[json |-> TRUE, message |-> Undefined, error |-> Undefined, id |-> EntityId,
    status |-> "COMPLETE", results |-> rs, errors |-> es] :
     rs \in SeqsUpTo(BatchObjects(family), MaxBatch),
     es \in {Undefined, Array(<<>>), Array(<<BatchError>>)}}

BatchAnswers(o) ==
  {NetworkFailure,
   Delivered([status |-> 200, retryAfter |-> Null, body |-> Entity]),
   Delivered([status |-> 204, retryAfter |-> Null, body |-> NotJson]),
   Delivered([status |-> 500, retryAfter |-> Null, body |-> NotJson])}
  \cup {Delivered([status |-> st, retryAfter |-> Null, body |-> b]) :
          st \in {200, 207}, b \in BatchBodies(BatchFamily(o))}

InvokeBatch == \E o \in BatchOps : \E in \in BatchCallInputs(o) : Invoke(o, in)
AnswerBatch == pc = "primary" /\ \E answer \in BatchAnswers(op) : Respond(answer)

NextBatch == InvokeBatch \/ AnswerBatch

SpecBatch == InitUpdate /\ [][NextBatch]_vars

\* ---------------------------------------------------------------------------
\* Pipeline calls
\* ---------------------------------------------------------------------------
\* Longest stage list of a pipeline and largest display order of a stage.
MaxStages == 3
MaxOrder == 2

StageOrders == -1..MaxOrder

StageMetadata ==
  {[probability |-> Str("1"), isClosed |-> Str("true")],
   [probability |-> Undefined, isClosed |-> Str("false")]}

\* Stage lists in any order of their display orders; the i-th stage the
\* backend lists has id i.
StageLists ==
  UNION {{[i \in 1..n |-> [id |-> ToString(i), label |-> "Stage", displayOrder |-> orders[i],
                           metadata |-> IF i = 1 THEN meta
                                        ELSE [probability |-> Undefined, isClosed |-> Str("false")]]] :
            orders \in [1..n -> StageOrders], meta \in StageMetadata} : n \in 0..MaxStages}

HubSpotPipeline(id, stages) ==
  [json |-> TRUE, message |-> Undefined, error |-> Undefined, id |-> id,
   label |-> "Sales", displayOrder |-> 0, stages |-> stages]

PipelineBodies == {HubSpotPipeline("p1", stages) : stages \in StageLists}

\* Pipelines of a list response: stage lists in strictly descending order.
ListedPipelines ==
  {HubSpotPipeline("p1", stages) : stages \in
     {l \in StageLists :
        /\ \A i \in DOMAIN l : l[i].metadata.isClosed = Str("false")
        /\ \A i, j \in DOMAIN l : i < j => l[i].displayOrder > l[j].displayOrder}}

HubSpotPipelinesResponse ==
  {[json |-> TRUE, message |-> Undefined, error |-> Undefined, results |-> ps] :
     ps \in SeqsUpTo(ListedPipelines, 2)}

PipelineStageInputs ==
  {[label |-> "Open", displayOrder |-> Num(1), metadata |-> Undefined],
   [label |-> "Won", displayOrder |-> Num(0),
    metadata |-> [probability |-> Num(1), isClosed |-> Bool(TRUE)]],
   [label |-> "Lost", displayOrder |-> Num(2),
    metadata |-> [probability |-> Num(0), isClosed |-> Bool(FALSE)]]}

PipelineInputs(o) ==
  CASE o \in PipelineListOps -> {NoInput}
    [] o = "getPipeline" ->
         {[objectType |-> t, pipelineId |-> "p1"] : t \in {"deals", "tickets"}}
    [] o = "createPipeline" ->
         {[objectType |-> "deals",
           input |-> [label |-> "Sales", displayOrder |-> d, stages |-> ss]] :
            d \in {Undefined, Num(0), Num(2)}, ss \in SeqsUpTo(PipelineStageInputs, 1)}
    [] o = "updatePipeline" ->
         {[objectType |-> "deals", pipelineId |-> "p1",
           input |-> [label |-> l, displayOrder |-> d]] :
            l \in {Undefined, Str("Sales")}, d \in {Undefined, Num(0), Num(2)}}

PipelineAnswers(o) ==
  {NetworkFailure,
   Delivered([status |-> 200, retryAfter |-> Null, body |-> Entity]),
   Delivered([status |-> 204, retryAfter |-> Null, body |-> NotJson]),
   Delivered([status |-> 500, retryAfter |-> Null, body |-> NotJson])}
  \cup {Delivered([status |-> 200, retryAfter |-> Null, body |-> b]) :
          b \in IF o \in PipelineListOps THEN HubSpotPipelinesResponse ELSE PipelineBodies}

InvokePipeline == \E o \in PipelineOps : \E in \in PipelineInputs(o) : Invoke(o, in)
AnswerPipeline == pc = "primary" /\ \E answer \in PipelineAnswers(op) : Respond(answer)

NextPipelines == InvokePipeline \/ AnswerPipeline

SpecPipelines == InitUpdate /\ [][NextPipelines]_vars

\* ---------------------------------------------------------------------------
\* Association calls, one after the other
\* ---------------------------------------------------------------------------
\* Calls a caller makes one after the other.
MaxCalls == 2

AssociationInputs ==
  [fromObjectType : {"contacts"}, fromObjectId : {"1", "2"}, toObjectType : {"companies"},
   toObjectId : {"7", "8"}, associationTypeId : {"1", "279"}]

AssociationAnswers ==
  {NetworkFailure,
   Delivered([status |-> 200, retryAfter |-> Null, body |-> Entity]),
   Delivered([status |-> 204, retryAfter |-> Null, body |-> NotJson]),
   Delivered([status |-> 500, retryAfter |-> Null, body |-> NotJson])}

\* The caller, its previous call settled, calls operation o with input in:
\* what the previous call was and how it ended is kept aside.
InvokeNext(o, in) ==
  /\ pc = "done"
  /\ Len(earlier) + 1 < MaxCalls
  /\ earlier' = Append(earlier, [op |-> op, input |-> input, net |-> net, result |-> result])
  /\ LET req == primaryRequest(o, in)
         args == fetchArgs(credentials, req.endpoint, req.options)
     IN /\ op' = o
        /\ input' = in
        /\ net' = NoAnswer
        /\ IF args.threw
           THEN /\ pc' = "done"
                /\ result' = raise(o, args.error)
                /\ UNCHANGED <<calls, flying>>
           ELSE /\ pc' = "primary"
                /\ calls' = Append(calls, args.call)
                /\ flying' = <<req>>
                /\ result' = Pending
  /\ UNCHANGED <<credentials, pending, primary, backend, worker>>

InvokeAssociation == \E o \in AssociationOps : \E in \in AssociationInputs : Invoke(o, in)
InvokeNextAssociation == \E o \in AssociationOps : \E in \in AssociationInputs : InvokeNext(o, in)
AnswerAssociation == \E answer \in AssociationAnswers : Respond(answer)

NextAssociations == InvokeAssociation \/ InvokeNextAssociation \/ AnswerAssociation

SpecAssociations == InitUpdate /\ [][NextAssociations]_vars

\* ---------------------------------------------------------------------------
\* List and search calls
\* ---------------------------------------------------------------------------
\* Longest filter list of a search and longest page of a response.
MaxFilters == 2
MaxItems == 2

ListParams ==
  {Undefined} \cup
  {[limit |-> l, cursor |-> c] : l \in {Undefined, Num(1), Num(100)},
                                 c \in {Undefined, Str("100")}}

SearchFilters ==
  {[field |-> Str("email"), operator |-> Str("contains"), value |-> Str("acme")],
   [field |-> Str("amount"), operator |-> Str("gte"), value |-> Num(5)],
   [field |-> Str("name"), operator |-> Str("starts_with"), value |-> Str("Ac")],
   [field |-> Str("phone"), operator |-> Str("is_null"), value |-> Undefined]}

\* Search parameters: a first page without a text query or a later page with
\* one, any filter list, any sort.
SearchParams ==
  {[limit |-> page.limit, cursor |-> page.cursor, query |-> page.query,
    filters |-> fs, sortBy |-> by, sortOrder |-> order] :
     page \in {[limit |-> Undefined, cursor |-> Undefined, query |-> Undefined],
               [limit |-> Num(1), cursor |-> Str("100"), query |-> Str("acme")]},
     fs \in {Undefined} \cup {Array(l) : l \in SeqsUpTo(SearchFilters, MaxFilters)},
     by \in {Undefined, Str(""), Str("createdate")},
     order \in {Undefined, Str("asc"), Str("desc")}}

PagedInputs(o) == IF o \in SearchOps THEN SearchParams ELSE ListParams

\* The page of n objects the backend lists first.
PageObjects(family, n) ==
  [i \in 1..n |->
     [id |-> ToString(i), properties |-> (PropertyList(family)[1] :> "v1"),
      createdAt |-> ServerTime, updatedAt |-> ServerTime]]

\* paging of a list or search response: absent, without a next page, or
\* with the pointer to the next page.
Pagings ==
  {NoProperties, "paging" :> NoProperties}
  \cup {"paging" :> [next |-> [after |-> a]] : a \in {"100", "abc", ""}}

HubSpotListResponse(o) ==
  {paging @@ (IF o \in SearchOps THEN "total" :> (n + 5) ELSE NoProperties) @@
   [json |-> TRUE, message |-> Undefined, error |-> Undefined,
    results |-> PageObjects(PagedFamily(o), n)] :
     n \in 0..MaxItems, paging \in Pagings}

PagedAnswers(o) ==
  {NetworkFailure,
   Delivered([status |-> 200, retryAfter |-> Null, body |-> Entity]),
   Delivered([status |-> 204, retryAfter |-> Null, body |-> NotJson]),
   Delivered([status |-> 500, retryAfter |-> Null, body |-> NotJson])}
  \cup {Delivered([status |-> 200, retryAfter |-> Null, body |-> b]) :
          b \in HubSpotListResponse(o)}

InvokePaged == \E o \in PagedOps : \E in \in PagedInputs(o) : Invoke(o, in)
AnswerPaged == pc = "primary" /\ \E answer \in PagedAnswers(op) : Respond(answer)

NextPaged == InvokePaged \/ AnswerPaged

SpecPaged == InitUpdate /\ [][NextPaged]_vars

\* ---------------------------------------------------------------------------
\* mapFilterOperator on its own
\* ---------------------------------------------------------------------------
\* Longest list of operator names mapped in one step.
MaxOperators == 2

\* The declared operators, and names outside the declaration.
FilterOperator ==
  {"eq", "neq", "lt", "lte", "gt", "gte", "contains", "not_contains", "starts_with", "in",
   "not_in", "is_null", "is_not_null"}

OperatorNames == FilterOperator \cup {"", "EQ", "like", "constructor", "toString", "__proto__"}

InitOperators ==
  /\ credentials = Creds(Str("secret"), Undefined, Undefined)
  /\ pc = "idle"
  /\ op = "none"
  /\ input \in {Array(l) : l \in SeqsUpTo(OperatorNames, MaxOperators) \ {<<>>}}
  /\ calls = <<>>
  /\ flying = <<>>
  /\ pending = <<>>
  /\ primary = Undefined
  /\ net = NoAnswer
  /\ result = Pending
  /\ backend = InitBackend
  /\ earlier = <<>>
  /\ worker = NoWorker

\* params.filters.map((f) => this.mapFilterOperator(f.operator)) over the names.
MapOperators ==
  /\ pc = "idle"
  /\ op' = "mapFilterOperator"
  /\ result' = Returned([i \in 1..Len(input.items) |-> mapFilterOperator(input.items[i])])
  /\ pc' = "done"
  /\ UNCHANGED <<credentials, input, calls, flying, pending, primary, net, backend, earlier, worker>>

NextOperators == MapOperators

SpecOperators == InitOperators /\ [][NextOperators]_vars

\* ---------------------------------------------------------------------------
\* Requests to the Worker and concurrent tool calls
\* ---------------------------------------------------------------------------
\* HTTP requests the Worker handles and tool calls started, over all instances.
MaxRequests == 2
MaxTasks == 2

HttpRequests ==
  {[pathname |-> "/health", method |-> "GET", headers |-> NoProperties],
   [pathname |-> "/mcp", method |-> "GET", headers |-> ("X-CRM-API-Key" :> Str("key-a"))],
   [pathname |-> "/mcp", method |-> "POST", headers |-> NoProperties],
   [pathname |-> "/mcp", method |-> "POST",
    headers |-> ("X-CRM-API-Key" :> Str("")) @@ ("X-CRM-Base-URL" :> Str("https://eu.example"))],
   [pathname |-> "/mcp", method |-> "POST", headers |-> ("X-CRM-API-Key" :> Str("key-a"))],
   [pathname |-> "/mcp", method |-> "POST",
    headers |-> ("X-CRM-API-Key" :> Str("key-b")) @@ ("X-CRM-Access-Token" :> Str("token-b")) @@
                ("X-CRM-Base-URL" :> Str("https://eu.example"))]}

\* The tool call of the model: hubspot_create_ticket for a contact, a create
\* followed by one link.
TicketForContact ==
  [subject |-> Str("Printer on fire"), content |-> Undefined, pipelineId |-> Undefined,
   stageId |-> Undefined, priority |-> Undefined, ownerId |-> Undefined,
   customFields |-> Undefined, contactId |-> Str("c1"), companyId |-> Undefined]

WorkerAnswers ==
  {Delivered([status |-> 200, retryAfter |-> Null, body |-> Entity]),
   Delivered([status |-> 500, retryAfter |-> Null, body |-> NotJson])}

\* The Worker handles one more HTTP request.
Receive(req) ==
  /\ Len(worker.handled) < MaxRequests
  /\ LET r == workerFetch(worker.clients, req)
     IN worker' = [worker EXCEPT
                     !.clients = r.clients,
                     !.handled = Append(@, [request |-> req, client |-> r.client,
                                            response |-> r.response])]
  /\ UNCHANGED <<credentials, pc, op, input, calls, flying, pending, primary, net, result,
                 backend, earlier>>

\* The MCP handler of an accepted request calls a tool on its instance.
CallTool(c, o, in) ==
  /\ c \in DOMAIN worker.clients
  /\ Len(worker.tasks) < MaxTasks
  /\ worker' = [worker EXCEPT !.tasks = Append(@, startTask(c, worker.clients[c], o, in))]
  /\ UNCHANGED <<credentials, pc, op, input, calls, flying, pending, primary, net, result,
                 backend, earlier>>

\* The transport answers the request tool call t waits for.
AnswerTask(t, answer) ==
  /\ t \in DOMAIN worker.tasks
  /\ worker.tasks[t].flying # <<>>
  /\ LET task == worker.tasks[t]
     IN /\ worker' = [worker EXCEPT
                        !.tasks[t] = resumeTask(worker.clients[task.client], task, answer)]
        /\ backend' = serve(backend, task.op, task.pc, Head(task.flying), answer)
  /\ UNCHANGED <<credentials, pc, op, input, calls, flying, pending, primary, net, result,
                 earlier>>

ReceiveAny == \E req \in HttpRequests : Receive(req)
CallAnyTool == \E c \in 1..MaxRequests : CallTool(c, "createTicket", TicketForContact)
AnswerAnyTask == \E t \in 1..MaxTasks : \E answer \in WorkerAnswers : AnswerTask(t, answer)

NextWorker == ReceiveAny \/ CallAnyTool \/ AnswerAnyTask

SpecWorker == InitUpdate /\ [][NextWorker]_vars

\* ---------------------------------------------------------------------------
\* Tool calls of one tenant, over every outcome of the adapter call
\* ---------------------------------------------------------------------------
\* hubspot_test_connection, hubspot_get_ticket, hubspot_create_ticket and
\* hubspot_batch_create_contacts, by the adapter method each calls.
ToolOps == {"testConnection", "getTicket", "createTicket", "batchCreateContacts"}

ToolInputs(o) ==
  CASE o = "createTicket" -> {TicketForContact}
    [] o = "batchCreateContacts" ->
         {[inputs |-> items] : items \in SeqsUpTo(BatchItems(o), 1)}
    [] OTHER -> {NoInput}

ToolAnswers(o) == IF o \in BatchOps THEN BatchAnswers(o) ELSE OpAnswers

\* The Worker handles its first request; an accepted POST /mcp creates the
\* tenant's server and adapter instance.
ReceiveTenant == worker.handled = <<>> /\ ReceiveAny

\* The tenant calls one tool.
CallOneTool ==
  /\ worker.tasks = <<>>
  /\ \E o \in ToolOps : \E in \in ToolInputs(o) : CallTool(1, o, in)

AnswerTool == \E answer \in ToolAnswers(worker.tasks[1].op) : AnswerTask(1, answer)

NextTools == ReceiveTenant \/ CallOneTool \/ (worker.tasks # <<>> /\ AnswerTool)

SpecTools == InitUpdate /\ [][NextTools]_vars

\* ---------------------------------------------------------------------------
\* Creates and updates with customFields
\* ---------------------------------------------------------------------------
\* Most entries a customFields object holds.
MaxEntries == 2

CustomFieldOps == {o \in UpdateOps : HasCustomFields(o)} \cup PlainCreateOps

\* Values of the type `unknown` a caller may put under a key.
CustomValues == {Undefined, Null, Str("cv"), Str(""), Num(5), Bool(FALSE)}

\* customFields objects: up to MaxEntries entries under distinct keys, one of
\* the keys being the backend name of the method's first mapped field.
CustomFieldObjects(o) ==
  LET keys == {"custom_field", FirstProp(o)}
      entries == {[key |-> k, value |-> v] : k \in keys, v \in CustomValues}
  IN {Object(es) : es \in {x \in SeqsUpTo(entries, MaxEntries) :
                             \A i, j \in DOMAIN x : i # j => x[i].key # x[j].key}}

CustomFieldInputs(o) ==
  LET first == CHOOSE f \in DeclaredFields(o) :
                 IF o \in UpdateOps THEN f = UpdateFields(o)[1].field
                 ELSE f = CreateFields(o)[1].field
  IN {[id |-> "42",
       fields |-> [f \in DeclaredFields(o) |->
                     IF f = first /\ supplied THEN SuppliedValue(f, "filled") ELSE Undefined],
       customFields |-> cf] :
        supplied \in BOOLEAN, cf \in {Undefined} \cup CustomFieldObjects(o)}

InvokeCustomFields == \E o \in CustomFieldOps : \E in \in CustomFieldInputs(o) : Invoke(o, in)

NextCustomFields == InvokeCustomFields \/ AnswerUpdate

SpecCustomFields == InitUpdate /\ [][NextCustomFields]_vars

\* ---------------------------------------------------------------------------
\* Batches of one input
\* ---------------------------------------------------------------------------
BatchWriteOps == BatchCreateOps \cup BatchUpdateOps

\* The single-object method that takes the same input type as a batch method:
\* ContactCreateInput for createContact and batchCreateContacts, and so on.
SingleOp(o) ==
  CASE o = "batchCreateContacts" -> "createContact"
    [] o = "batchCreateCompanies" -> "createCompany"
    [] o = "batchCreateDeals" -> "createDeal"
    [] o = "batchCreateTickets" -> "createTicket"
    [] o = "batchUpdateContacts" -> "updateContact"
    [] o = "batchUpdateCompanies" -> "updateCompany"
    [] o = "batchUpdateDeals" -> "updateDeal"
    [] o = "batchUpdateTickets" -> "updateTicket"

\* The rows of the single-object method's guarded assignments.
SingleFields(o) ==
  IF o \in BatchUpdateOps THEN UpdateFields(SingleOp(o))
  ELSE IF o = "batchCreateTickets"
  THEN <<F("subject", "subject", "truthy"), F("content", "content", "truthy"),
         F("pipelineId", "hs_pipeline", "truthy"), F("stageId", "hs_pipeline_stage", "truthy"),
         F("priority", "hs_ticket_priority", "truthy"),
         F("ownerId", "hubspot_owner_id", "truthy")>>
  ELSE CreateFields(SingleOp(o))

\* Inputs of the shared input type: the first field or every field filled,
\* with and without customFields.
OneInputs(o) ==
  LET rows == SingleFields(o)
      names == {rows[i].field : i \in DOMAIN rows}
      filled(f) == IF \E i \in DOMAIN rows : rows[i].field = f /\ rows[i].conv = "String"
                   THEN Num(5) ELSE Str("new")
  IN {[id |-> "1",
       fields |-> [f \in names |-> IF all \/ f = rows[1].field THEN filled(f) ELSE Undefined],
       customFields |-> cf] :
        all \in BOOLEAN,
        cf \in {Undefined, Object(<<[key |-> "custom_field", value |-> Str("cv")]>>)}}

InvokeBatchOne == \E o \in BatchWriteOps : \E item \in OneInputs(o) : Invoke(o, [inputs |-> <<item>>])

NextBatchOne == InvokeBatchOne \/ AnswerBatch

SpecBatchOne == InitUpdate /\ [][NextBatchOne]_vars

\* ---------------------------------------------------------------------------
\* request() called with headers of the operation's own
\* ---------------------------------------------------------------------------
\* options.headers as an operation may pass them to request(): none, a content
\* type, a header the auth headers do not hold, and an Authorization.
OperationHeaders ==
  {NoHeaders,
   "Content-Type" :> "text/plain",
   "Accept" :> "application/json",
   "Authorization" :> "Bearer other",
   ("Authorization" :> "Bearer other") @@ ("Content-Type" :> "text/plain")}

\* this.request(endpoint, { method: 'GET', headers }) and the transport's answer.
CallRequestWith(headers, answer) ==
  /\ pc = "idle"
  /\ LET req == primaryRequest("getContact", NoInput)
         r == request(credentials, req.endpoint, [req.options EXCEPT !.headers = headers],
                      answer)
     IN /\ op' = "request"
        /\ input' = [headers |-> headers]
        /\ calls' = r.fetched
        /\ net' = IF r.fetched = <<>> THEN NoAnswer ELSE answer
        /\ result' = IF r.outcome.ok THEN Returned(r.outcome.value)
                     ELSE [state |-> "thrown", error |-> r.outcome.error]
        /\ pc' = "done"
  /\ UNCHANGED <<credentials, flying, pending, primary, backend, earlier, worker>>

NextHeaders == \E headers \in OperationHeaders : \E answer \in OpAnswers : CallRequestWith(headers, answer)

SpecHeaders == Init /\ [][NextHeaders]_vars

\* ---------------------------------------------------------------------------
\* Properties
\* ---------------------------------------------------------------------------
NoCredentialsMessage ==
  "No credentials provided. Include X-CRM-API-Key or X-CRM-Access-Token header."

\* The client holds neither an API key nor an access token.
NoCredentials == ~Truthy(credentials.apiKey) /\ ~Truthy(credentials.accessToken)

Invoked == op # "none"
AnswerDelivered == net # NoAnswer /\ ~net.failed
Thrown(name) == result.state = "thrown" /\ result.error.name = name

\* C1 as stated: without credentials every operation, testConnection included,
\* fails with AuthenticationError and issues no fetch.
C1_AllOperationsThrow ==
  (Invoked /\ NoCredentials) =>
    /\ pc = "done"
    /\ calls = <<>>
    /\ Thrown("AuthenticationError")

\* C1 (amended): without credentials no operation issues a fetch; every
\* operation but testConnection fails with the no-credentials
\* AuthenticationError, and testConnection returns connected false carrying
\* that error's message.
C1_NoCredentialsNoFetch ==
  (Invoked /\ NoCredentials) =>
    /\ pc = "done"
    /\ calls = <<>>
    /\ net = NoAnswer
    /\ IF op = "testConnection"
       THEN result = Returned([connected |-> FALSE, message |-> NoCredentialsMessage])
       ELSE Thrown("AuthenticationError") /\ result.error.message = NoCredentialsMessage

C1_Witness ==
  /\ op = "createTicket"
  /\ credentials = Creds(Str(""), Str(""), Undefined)
  /\ pc = "done"
  /\ Thrown("AuthenticationError")

RequestAnswered == op = "request" /\ pc = "done" /\ AnswerDelivered
Is2xx(status) == status >= 200 /\ status <= 299

\* C2 as stated: one outcome per status, a 2xx other than 204 always giving
\* the parsed body.
C2_StatusDecidesOutcome ==
  RequestAnswered =>
    LET r == net.response
    IN CASE r.status = 429 -> Thrown("RateLimitError")
         [] r.status \in {401, 403} -> Thrown("AuthenticationError")
         [] r.status \notin {429, 401, 403} /\ ~Is2xx(r.status) ->
              Thrown("CrmApiError") /\ result.error.statusCode = r.status
         [] r.status = 204 -> result = Returned(Undefined)
         [] Is2xx(r.status) /\ r.status # 204 -> result = Returned(r.body)

\* C2 (amended): 429 gives RateLimitError; 401 or 403 AuthenticationError; any
\* other non-2xx CrmApiError with that status; 204 success with no body; any
\* other 2xx the parsed body when the body is JSON, and otherwise the JSON
\* parse failure, which is none of the three error kinds.
C2_Classification ==
  RequestAnswered =>
    LET r == net.response
    IN CASE r.status = 429 -> Thrown("RateLimitError")
         [] r.status \in {401, 403} -> Thrown("AuthenticationError")
         [] r.status \notin {429, 401, 403} /\ ~Is2xx(r.status) ->
              Thrown("CrmApiError") /\ result.error.statusCode = r.status
         [] r.status = 204 -> result = Returned(Undefined)
         [] Is2xx(r.status) /\ r.status # 204 ->
              IF r.body.json THEN result = Returned(r.body) ELSE Thrown("SyntaxError")

C2_Witness ==
  /\ RequestAnswered
  /\ net.response.status = 201
  /\ net.response.body = Entity
  /\ result = Returned(Entity)

\* A header value made of decimal digits only, and the number it denotes.
AllDigits(chars) == chars # <<>> /\ \A i \in DOMAIN chars : chars[i] \in Digits

RECURSIVE Decimal(_)
Decimal(chars) ==
  IF Len(chars) = 1 THEN DigitVal(chars[1])
  ELSE 10 * Decimal(SubSeq(chars, 1, Len(chars) - 1)) + DigitVal(chars[Len(chars)])

RateLimited == RequestAnswered /\ net.response.status = 429

\* C6: a 429 with a numeric Retry-After of N seconds gives a RateLimitError
\* whose retry delay is N; a 429 without the header gives a delay of 60.
C6_RetryAfter ==
  RateLimited =>
    /\ Thrown("RateLimitError")
    /\ (net.response.retryAfter = Null => result.error.retryAfterSeconds = Num(60))
    /\ (net.response.retryAfter # Null /\ AllDigits(net.response.retryAfter.chars) =>
          result.error.retryAfterSeconds = Num(Decimal(net.response.retryAfter.chars)))

C6_Witness ==
  /\ RateLimited
  /\ net.response.retryAfter = Header(<<"3", "0">>)
  /\ result.error.retryAfterSeconds = Num(30)

\* Text that reads as a number: an optional sign and decimal digits, with
\* white space allowed around them.
RECURSIVE TrimRight(_)
TrimRight(chars) ==
  IF chars # <<>> /\ chars[Len(chars)] = " "
  THEN TrimRight(SubSeq(chars, 1, Len(chars) - 1)) ELSE chars

IsNumber(chars) ==
  LET t == TrimRight(SkipWhitespace(chars))
      u == IF t # <<>> /\ Head(t) \in {"-", "+"} THEN Tail(t) ELSE t
  IN AllDigits(u)

\* C7: a 429 whose Retry-After header is present but is not a number gives a
\* RateLimitError whose retry delay is 60.
C7_MalformedRetryAfter ==
  (RateLimited /\ net.response.retryAfter # Null
     /\ ~IsNumber(net.response.retryAfter.chars)) =>
    /\ Thrown("RateLimitError")
    /\ result.error.retryAfterSeconds = Num(60)

\* C8: a 204 answer never surfaces as an error, whichever operation got it.
C8_NoContentIsSuccess ==
  (Invoked /\ AnswerDelivered /\ net.response.status = 204) => result.state # "thrown"

ProbeSucceeded ==
  /\ AnswerDelivered
  /\ Is2xx(net.response.status)
  /\ (net.response.status = 204 \/ net.response.body.json)

\* The message of the failure the last request ended with.
FailureMessage ==
  IF net = NoAnswer THEN NoCredentialsMessage
  ELSE IF net.failed THEN "fetch failed"
  ELSE IF net.response.status = 429 THEN "Rate limit exceeded"
  ELSE IF net.response.status \in {401, 403}
  THEN "Authentication failed. Check your API credentials."
  ELSE IF Is2xx(net.response.status) THEN "Unexpected token in JSON"
  ELSE IF net.response.body.json /\ Truthy(net.response.body.message)
  THEN net.response.body.message.s
  ELSE IF net.response.body.json /\ Truthy(net.response.body.error)
  THEN net.response.body.error.s
  ELSE "API error: " \o ToString(net.response.status)

\* C9: testConnection never throws; it makes one probe request at most,
\* returns connected true exactly when the probe succeeds, and otherwise
\* returns connected false with the failure's message.
C9_TestConnectionNeverThrows ==
  (op = "testConnection") =>
    /\ result.state # "thrown"
    /\ Len(calls) <= 1
    /\ (pc = "done" =>
          /\ result.state = "returned"
          /\ (result.value.connected <=> ProbeSucceeded)
          /\ (~result.value.connected => result.value.message = FailureMessage))

C9_Witness ==
  /\ op = "testConnection"
  /\ pc = "done"
  /\ AnswerDelivered
  /\ net.response.status = 429
  /\ result = Returned([connected |-> FALSE, message |-> "Rate limit exceeded"])

\* The last request failed, and the kind of error request() raises for it.
AnswerFailed ==
  /\ net # NoAnswer
  /\ \/ net.failed
     \/ ~Is2xx(net.response.status)
     \/ (net.response.status # 204 /\ ~net.response.body.json)

FailureName ==
  IF net.failed THEN "TypeError"
  ELSE IF net.response.status = 429 THEN "RateLimitError"
  ELSE IF net.response.status \in {401, 403} THEN "AuthenticationError"
  ELSE IF Is2xx(net.response.status) THEN "SyntaxError"
  ELSE "CrmApiError"

ThrownLastFailure ==
  /\ Thrown(FailureName)
  /\ result.error.message = FailureMessage

IsPrefix(a, b) == Len(a) <= Len(b) /\ a = SubSeq(b, 1, Len(a))

\* The requests operation `op` makes on `input` when every one succeeds.
PlannedRequests == <<primaryRequest(op, input)>> \o associations(op, input, EntityId)
PlannedCalls ==
  [i \in 1..Len(PlannedRequests) |->
     fetchArgs(credentials, PlannedRequests[i].endpoint, PlannedRequests[i].options).call]

CreateLinkOps == {"createTicket", "createNote", "createMeeting", "createQuote", "createLineItem"}

\* The backend rejected the last request (it did not answer 2xx).
Rejected == net # NoAnswer /\ (net.failed \/ ~Is2xx(net.response.status))

\* C3: when the create succeeded and a later association request fails, the
\* operation fails with that error, issues no further request (neither the
\* pending associations nor a DELETE), and the backend keeps the entity and
\* exactly the links it acknowledged: those made before the failure, without
\* the rejected one.
C3_NoRollback ==
  (op \in CreateLinkOps /\ primary # Undefined /\ AnswerFailed) =>
    /\ pc = "done"
    /\ flying = <<>>
    /\ ThrownLastFailure
    /\ IsPrefix(calls, PlannedCalls)
    /\ \A i \in DOMAIN calls : calls[i].method # "DELETE"
    /\ EntityId \in backend.entities
    /\ backend.links =
         {PlannedRequests[i].endpoint :
            i \in 2..(IF Rejected THEN Len(calls) - 1 ELSE Len(calls))}

C3_Witness ==
  /\ op = "createNote"
  /\ primary # Undefined
  /\ AnswerFailed
  /\ Len(calls) = 3
  /\ Len(PlannedCalls) = 4
  /\ Rejected
  /\ backend.links = {"/crm/v3/objects/notes/101/associations/contacts/c1/202"}
  /\ result.state = "thrown"

BaseUrlUsed ==
  IF Truthy(credentials.baseUrl) THEN credentials.baseUrl.s ELSE "https://api.hubapi.com"

Pick(value, path) == IF Truthy(value) THEN <<path>> ELSE <<>>

\* The association paths each method is meant to request, in order.
ExpectedLinks ==
  CASE op = "createTicket" ->
         Pick(input.contactId, "/crm/v3/objects/tickets/101/associations/contacts/c1/16") \o
         Pick(input.companyId, "/crm/v3/objects/tickets/101/associations/companies/k1/26")
    [] op = "createNote" ->
         Pick(input.contactId, "/crm/v3/objects/notes/101/associations/contacts/c1/202") \o
         Pick(input.companyId, "/crm/v3/objects/notes/101/associations/companies/k1/190") \o
         Pick(input.dealId, "/crm/v3/objects/notes/101/associations/deals/d1/214")
    [] op = "createMeeting" ->
         IF input.contactIds = Undefined THEN <<>>
         ELSE [i \in 1..Len(input.contactIds.items) |->
                 "/crm/v3/objects/meetings/101/associations/contacts/" \o
                 input.contactIds.items[i] \o "/200"]
    [] op = "createQuote" ->
         Pick(input.dealId, "/crm/v3/objects/quotes/101/associations/deals/d1/64")
    [] op = "createLineItem" ->
         Pick(input.dealId, "/crm/v3/objects/line_items/101/associations/deals/d1/20")

\* C4: no association request before the create has returned successfully
\* (so none after a failed create), the association requests go out in the
\* fixed order of the method, and at most one request is in flight.
C4_SequentialAssociations ==
  (op \in CreateLinkOps) =>
    /\ Len(flying) <= 1
    /\ (Len(calls) >= 2 => primary # Undefined /\ EntityId \in backend.entities)
    /\ (calls # <<>> => calls[1].method = "POST")
    /\ Len(calls) <= 1 + Len(ExpectedLinks)
    /\ \A i \in 2..Len(calls) :
         /\ calls[i].method = "PUT"
         /\ calls[i].url = BaseUrlUsed \o ExpectedLinks[i - 1]

C4_Witness ==
  /\ op = "createMeeting"
  /\ input.contactIds = Array(<<"c2", "c1">>)
  /\ Len(calls) = 3
  /\ pc = "done"
  /\ result.state = "returned"

\* C5: no request is sent twice or out of plan; a failed request ends the
\* operation at once with that failure; only testConnection returns a value
\* after a failure.
C5_NoRetry ==
  Invoked =>
    /\ (calls # <<>> => IsPrefix(calls, PlannedCalls))
    /\ (AnswerFailed =>
          /\ pc = "done"
          /\ flying = <<>>
          /\ IF op = "testConnection"
             THEN result.state = "returned" /\ ~result.value.connected
             ELSE ThrownLastFailure)
    /\ (result.state = "returned" /\ op # "testConnection" => net # NoAnswer /\ ~AnswerFailed)

C5_Witness ==
  /\ op = "createTicket"
  /\ Len(calls) = 2
  /\ Len(PlannedCalls) = 3
  /\ pc = "done"
  /\ Thrown("RateLimitError")

\* Keys a customFields object puts into the outgoing properties.
CustomKeys ==
  IF Truthy(input.customFields)
  THEN {input.customFields.entries[i].key :
          i \in {j \in DOMAIN input.customFields.entries :
                   input.customFields.entries[j].value \notin {Undefined, Null}}}
  ELSE {}

PatchSent == op \in UpdateOps /\ calls # <<>>

\* C10 as stated: the backend property of an undefined field is never in the
\* PATCH properties and keeps its stored value.
C10_UndefinedNeverSent ==
  PatchSent =>
    \A f \in FieldNames(op) :
      input.fields[f] = Undefined =>
        /\ PropOf(op, f) \notin DOMAIN calls[1].body.properties
        /\ backend.store[PropOf(op, f)] = "old"

\* C10 (amended): the backend property of an undefined field is not in the
\* PATCH properties, and keeps its stored value, unless the customFields of
\* the same input carry an entry under that backend property name.
C10_UndefinedLeftAlone ==
  PatchSent =>
    /\ calls[1].method = "PATCH"
    /\ \A f \in FieldNames(op) :
         (input.fields[f] = Undefined /\ PropOf(op, f) \notin CustomKeys) =>
           /\ PropOf(op, f) \notin DOMAIN calls[1].body.properties
           /\ backend.store[PropOf(op, f)] = "old"

C10_Witness ==
  /\ op = "updateContact"
  /\ input.fields["firstName"] = Undefined
  /\ input.fields["lastName"] = Str("new")
  /\ pc = "done"
  /\ AnswerDelivered
  /\ net.response.status = 200
  /\ backend.store["lastname"] = "new"
  /\ backend.store["firstname"] = "old"

\* A write that the backend accepted has been read back.
ReadBack == pc = "read" /\ result.state = "returned"

\* The entity read carries the supplied value under field f; a field supplied
\* as the empty string may read back as absent.
ReadsBack(f) ==
  LET got == IF f \in DOMAIN result.value.fields THEN result.value.fields[f] ELSE Undefined
  IN \/ got = input.fields[f]
     \/ input.fields[f] = Str("") /\ got = Undefined

\* C11: every field of the update input type that is present in the input
\* (an empty string included) is written, so the Get that follows returns the
\* supplied value for it.
C11_PresentFieldsWritten ==
  (ReadBack /\ op \in UpdateOps) =>
    \A f \in DeclaredFields(op) :
      input.fields[f] # Undefined => ReadsBack(f)

\* C12: every field supplied to a create is returned unchanged by the Get of
\* the created id, and the entity read has a non-empty id and createdAt.
C12_CreateRoundTrip ==
  (ReadBack /\ op \in PlainCreateOps) =>
    /\ result.value.stamps.id # ""
    /\ result.value.stamps.createdAt # ""
    /\ \A f \in DeclaredFields(op) :
         input.fields[f] # Undefined => ReadsBack(f)

\* A batch read, create or update got a success response carrying results.
BatchAnswered ==
  /\ op \in BatchReadOps \cup BatchCreateOps \cup BatchUpdateOps
  /\ AnswerDelivered
  /\ Is2xx(net.response.status) /\ net.response.status # 204
  /\ net.response.body.json
  /\ "results" \in DOMAIN net.response.body

\* C13: a success response carrying results and per-item errors makes the
\* batch call return a BatchResult with the successes mapped in backend order
\* and the backend's errors unchanged; nothing is thrown.
C13_PartialFailureIsData ==
  BatchAnswered =>
    /\ result.state = "returned"
    /\ result.value.status = net.response.body.status
    /\ Len(result.value.results) = Len(net.response.body.results)
    /\ \A i \in DOMAIN result.value.results :
         result.value.results[i].stamps.id = net.response.body.results[i].id
    /\ result.value.errors = net.response.body.errors

C13_Witness ==
  /\ BatchAnswered
  /\ op = "batchCreateContacts"
  /\ Len(input.inputs) = 2
  /\ result.state = "returned"
  /\ Len(result.value.results) = 2
  /\ result.value.results[1].stamps.id # result.value.results[2].stamps.id
  /\ result.value.errors = Array(<<BatchError>>)

BatchKind(o) ==
  CASE o \in BatchReadOps -> "read" [] o \in BatchCreateOps -> "create"
    [] o \in BatchUpdateOps -> "update" [] o \in BatchArchiveOps -> "archive"

\* C14: a batch operation issues exactly one POST to
\* /crm/v3/objects/{objectType}/batch/{kind} whose inputs array has one entry
\* per caller input in caller order, whatever the number of inputs.
C14_OneRequestPerBatch ==
  (op \in BatchOps) =>
    /\ Len(calls) = 1
    /\ calls[1].method = "POST"
    /\ calls[1].url = API_BASE_URL \o "/crm/v3/objects/" \o BatchFamily(op) \o "/batch/" \o
                        BatchKind(op)
    /\ LET items == batchCallerInputs(op, input)
           sent == calls[1].body.inputs
       IN /\ Len(sent) = Len(items)
          /\ \A i \in DOMAIN sent :
               /\ op \notin BatchCreateOps => sent[i].id = (IF op \in BatchUpdateOps
                                                            THEN items[i].id ELSE items[i])
               /\ op \in BatchCreateOps \cup BatchUpdateOps =>
                    sent[i].properties = batchProperties(op, items[i])

C14_Witness ==
  /\ op = "batchArchiveDeals"
  /\ Len(input.ids) = BigBatch
  /\ pc = "done"
  /\ result = Returned(Undefined)
  /\ Len(calls) = 1
  /\ Len(calls[1].body.inputs) = BigBatch

\* The pipelines an answered pipeline operation returned, as a sequence, with
\* the pipelines of the response they were mapped from.
ReturnedPipelines ==
  IF op \in PipelineListOps THEN result.value ELSE <<result.value>>

AnsweredPipelines ==
  IF op \in PipelineListOps THEN net.response.body.results ELSE <<net.response.body>>

PipelineReturned ==
  /\ op \in PipelineOps
  /\ pc = "done"
  /\ result.state = "returned"

\* C15: every operation that returns a pipeline returns its stages sorted
\* ascending by display order, each stage of the response once.
C15_StagesSorted ==
  PipelineReturned =>
    /\ Len(ReturnedPipelines) = Len(AnsweredPipelines)
    /\ \A k \in DOMAIN ReturnedPipelines :
         LET stages == ReturnedPipelines[k].stages
             sent == AnsweredPipelines[k].stages
         IN /\ \A i, j \in DOMAIN stages : i < j => stages[i].order <= stages[j].order
            /\ Len(stages) = Len(sent)
            /\ \A i \in DOMAIN sent :
                 \E j \in DOMAIN stages :
                   stages[j].id = sent[i].id /\ stages[j].order = sent[i].displayOrder

C15_Witness ==
  /\ PipelineReturned
  /\ op = "updatePipeline"
  /\ Len(net.response.body.stages) = 3
  /\ net.response.body.stages[1].displayOrder > net.response.body.stages[2].displayOrder
  /\ net.response.body.stages[2].displayOrder > net.response.body.stages[3].displayOrder
  /\ result.value.stages[1].id = "3"
  /\ result.value.stages[3].id = "1"

\* The calls of the caller so far, the current one last.
History == Append(earlier, [op |-> op, input |-> input, net |-> net, result |-> result])

\* createAssociation was called again and again with the same five arguments
\* and the last call has settled.
SameLinkTwice ==
  /\ pc = "done"
  /\ Len(History) >= 2
  /\ \A k \in DOMAIN History :
       History[k].op = "createAssociation" /\ History[k].input = input

Accepted(call) ==
  /\ call.net # NoAnswer
  /\ ~call.net.failed
  /\ Is2xx(call.net.response.status)

\* C16: createAssociation called twice with the same five arguments issues the
\* same request both times (PUT to the link path, the adapter's headers, no
\* body); when the backend accepts both, neither call fails and the backend
\* holds exactly one link.
C16_SameLinkTwice ==
  SameLinkTwice =>
    /\ Len(calls) = Len(History)
    /\ \A k \in DOMAIN calls :
         calls[k] = [url |-> API_BASE_URL \o "/crm/v3/objects/" \o input.fromObjectType \o "/" \o
                               input.fromObjectId \o "/associations/" \o input.toObjectType \o
                               "/" \o input.toObjectId \o "/" \o input.associationTypeId,
                     method |-> "PUT", body |-> NoBody,
                     headers |-> getAuthHeaders(credentials).headers]
    /\ (\A k \in DOMAIN History : Accepted(History[k])) =>
         /\ \A k \in DOMAIN History : History[k].result = Returned(Undefined)
         /\ Cardinality(backend.links) = 1

C16_Witness ==
  /\ SameLinkTwice
  /\ \A k \in DOMAIN History : Accepted(History[k])
  /\ Len(calls) = 2
  /\ calls[1] = calls[2]
  /\ calls[1].method = "PUT"
  /\ Cardinality(backend.links) = 1
  /\ result = Returned(Undefined)

\* A list or search call got a success response carrying a page.
PagedAnswered ==
  /\ op \in PagedOps
  /\ pc = "done"
  /\ AnswerDelivered
  /\ Is2xx(net.response.status) /\ net.response.status # 204
  /\ net.response.body.json
  /\ "results" \in DOMAIN net.response.body

NextPointer ==
  /\ "paging" \in DOMAIN net.response.body
  /\ "next" \in DOMAIN net.response.body.paging

\* C17: every list and search operation returns hasMore true and nextCursor
\* equal to the next-page pointer of the response when it has one, hasMore
\* false and nextCursor undefined when it has none, whatever the number of
\* items and the requested limit.
C17_HasMoreFromPointer ==
  PagedAnswered =>
    /\ result.state = "returned"
    /\ NextPointer =>
         /\ result.value.hasMore = TRUE
         /\ result.value.nextCursor = Str(net.response.body.paging["next"].after)
    /\ ~NextPointer =>
         /\ result.value.hasMore = FALSE
         /\ result.value.nextCursor = Undefined

C17_Witness ==
  /\ PagedAnswered
  /\ op = "listOrders"
  /\ input # Undefined
  /\ input.limit = Num(100)
  /\ NextPointer
  /\ result.state = "returned"
  /\ result.value.count = 0
  /\ result.value.hasMore = TRUE
  /\ result.value.nextCursor = Str("abc")

\* The operator table of the search contract; every other name stands for EQ.
OperatorTable ==
  [eq |-> "EQ", neq |-> "NEQ", lt |-> "LT", lte |-> "LTE", gt |-> "GT", gte |-> "GTE",
   contains |-> "CONTAINS_TOKEN", not_contains |-> "NOT_CONTAINS_TOKEN", in |-> "IN",
   not_in |-> "NOT_IN", is_null |-> "NOT_HAS_PROPERTY", is_not_null |-> "HAS_PROPERTY"]

MappedOperator(name) ==
  Str(IF name \in DOMAIN OperatorTable THEN OperatorTable[name] ELSE "EQ")

SearchSent ==
  /\ op \in SearchOps
  /\ Len(calls) = 1

\* C18: a search with a non-empty filter list sends exactly one filter group
\* with one entry per filter in input order, each carrying the field as
\* propertyName, the mapped operator and the value as given; a search without
\* filters sends no filterGroups key.
C18_OneFilterGroup ==
  SearchSent =>
    LET body == calls[1].body
        given == input.filters # Undefined /\ Len(input.filters.items) > 0
    IN /\ ~given => "filterGroups" \notin DOMAIN body
       /\ given =>
            /\ "filterGroups" \in DOMAIN body
            /\ Len(body.filterGroups) = 1
            /\ Len(body.filterGroups[1].filters) = Len(input.filters.items)
            /\ \A i \in DOMAIN input.filters.items :
                 LET f == input.filters.items[i]
                     entry == body.filterGroups[1].filters[i]
                 IN /\ entry.propertyName = f.field
                    /\ entry.operator = MappedOperator(f.operator.s)
                    /\ IF f.value = Undefined THEN "value" \notin DOMAIN entry
                       ELSE entry.value = f.value

C18_Witness ==
  /\ SearchSent
  /\ op = "searchContacts"
  /\ input.filters # Undefined
  /\ Len(input.filters.items) = 2
  /\ input.filters.items[1] =
       [field |-> Str("email"), operator |-> Str("contains"), value |-> Str("acme")]
  /\ Len(calls[1].body.filterGroups) = 1
  /\ calls[1].body.filterGroups[1].filters[1] =
       [propertyName |-> Str("email"), operator |-> Str("CONTAINS_TOKEN"), value |-> Str("acme")]
  /\ calls[1].body.filterGroups[1].filters[2].operator = Str("EQ")

\* C19: mapFilterOperator maps the twelve names of the operator table to their
\* backend operators and every other name, starts_with included, to EQ.
C19_OperatorMapping ==
  (op = "mapFilterOperator" /\ pc = "done") =>
    \A i \in DOMAIN input.items : result.value[i] = MappedOperator(input.items[i])

\* C20: each of the six search operations sends sorts as one
\* {propertyName: sortBy, direction} entry, DESCENDING for sortOrder desc and
\* ASCENDING otherwise, when sortBy is given, and no sorts key when it is not.
C20_SortsSent ==
  SearchSent =>
    LET body == calls[1].body
    IN /\ input.sortBy = Undefined => "sorts" \notin DOMAIN body
       /\ Truthy(input.sortBy) =>
            /\ "sorts" \in DOMAIN body
            /\ body.sorts = <<[propertyName |-> input.sortBy,
                               direction |-> IF input.sortOrder = Str("desc")
                                             THEN "DESCENDING" ELSE "ASCENDING"]>>

\* The tool call as it proceeds alone on the instance it was started on, given
\* the answers it has received.
RECURSIVE Alone(_, _, _)
Alone(client, task, answers) ==
  IF answers = <<>> THEN task
  ELSE Alone(client, resumeTask(client, task, Head(answers)), Tail(answers))

Bearer(creds) ==
  "Bearer " \o String(IF Truthy(creds.accessToken) THEN creds.accessToken ELSE creds.apiKey)

\* C21: every adapter instance keeps the credentials and base URL it was
\* constructed with, every request of a tool call carries the base URL and
\* bearer of its own instance, and under every interleaving a tool call issues
\* the requests it issues when it runs alone.
C21_InstancesIsolated ==
  /\ \A k \in DOMAIN worker.handled :
       LET h == worker.handled[k]
       IN h.client # 0 =>
            worker.clients[h.client] = CrmClientImpl(parseTenantCredentials(h.request))
  /\ \A t \in DOMAIN worker.tasks :
       LET task == worker.tasks[t]
           mine == CHOOSE k \in DOMAIN worker.handled : worker.handled[k].client = task.client
           creds == parseTenantCredentials(worker.handled[mine].request)
       IN /\ \A i \in DOMAIN task.calls :
               /\ task.calls[i].headers["Authorization"] = Bearer(creds)
               /\ IsPrefix(String(JsOr(creds.baseUrl, Str(API_BASE_URL))) \o "/crm/v3/objects/",
                           task.calls[i].url)
          /\ task.calls =
               Alone(CrmClientImpl(creds),
                     startTask(task.client, CrmClientImpl(creds), task.op, task.input),
                     task.answers).calls

C21_Witness ==
  /\ Len(worker.tasks) = 2
  /\ worker.tasks[1].client # worker.tasks[2].client
  /\ worker.tasks[1].pc = "assoc" /\ Len(worker.tasks[1].calls) = 2
  /\ worker.tasks[2].pc = "assoc" /\ Len(worker.tasks[2].calls) = 2
  /\ worker.tasks[1].calls[2].headers["Authorization"] = "Bearer key-a"
  /\ worker.tasks[2].calls[2].headers["Authorization"] = "Bearer token-b"
  /\ worker.tasks[2].calls[2].url =
       "https://eu.example/crm/v3/objects/tickets/101/associations/contacts/c1/16"

\* The requests to POST /mcp that carry neither credential header.
NoCredentialHeaders(req) ==
  /\ req.pathname = "/mcp" /\ req.method = "POST"
  /\ ~Truthy(Get(req.headers, "X-CRM-API-Key"))
  /\ ~Truthy(Get(req.headers, "X-CRM-Access-Token"))

\* C22: a POST /mcp that carries neither X-CRM-API-Key nor X-CRM-Access-Token
\* is answered 401, no adapter instance is created for it, and no request to
\* the backend is made on its behalf: instances exist only for the accepted
\* requests and every tool call runs on one of them.
C22_RejectedBeforeCreation ==
  /\ \A k \in DOMAIN worker.handled :
       LET h == worker.handled[k]
       IN NoCredentialHeaders(h.request) =>
            /\ h.response.status = 401
            /\ h.response.body.error = "Unauthorized"
            /\ h.client = 0
  /\ Len(worker.clients) = Cardinality({k \in DOMAIN worker.handled : worker.handled[k].client # 0})
  /\ \A t \in DOMAIN worker.tasks :
       \E k \in DOMAIN worker.handled :
         /\ worker.handled[k].client = worker.tasks[t].client
         /\ ~NoCredentialHeaders(worker.handled[k].request)

C22_Witness ==
  /\ Len(worker.handled) = 2
  /\ NoCredentialHeaders(worker.handled[1].request)
  /\ worker.handled[1].response.status = 401
  /\ worker.handled[2].client = 1
  /\ Len(worker.clients) = 1
  /\ Len(worker.tasks) = 1 /\ Len(worker.tasks[1].calls) = 2

\* C28: validateCredentials and getAuthHeaders accept exactly the same
\* bundles, those a request's headers parse to included, so a tool call on an
\* instance created by POST /mcp never ends in the no-credentials
\* AuthenticationError.
C28_ChecksAgree ==
  /\ \A creds \in TenantCredentials :
       validateCredentials(creds).threw <=> getAuthHeaders(creds).threw
  /\ \A k \in DOMAIN worker.handled :
       LET creds == parseTenantCredentials(worker.handled[k].request)
       IN validateCredentials(creds).threw <=> getAuthHeaders(creds).threw
  /\ \A c \in DOMAIN worker.clients : ~getAuthHeaders(worker.clients[c].credentials).threw
  /\ \A t \in DOMAIN worker.tasks :
       LET task == worker.tasks[t]
       IN /\ task.calls # <<>>
          /\ task.result # Pending /\ task.result.state = "thrown" =>
                task.result.error # AuthenticationError(NoCredentialsMessage)

C28_Witness ==
  /\ \E k \in DOMAIN worker.handled :
       /\ worker.handled[k].response.status = 401
       /\ getAuthHeaders(parseTenantCredentials(worker.handled[k].request)).threw
  /\ \E t \in DOMAIN worker.tasks :
       /\ worker.tasks[t].pc = "done"
       /\ worker.tasks[t].result # Pending
       /\ worker.tasks[t].result.state = "thrown"
       /\ worker.tasks[t].calls[1].headers["Authorization"] = "Bearer key-a"

\* C26: with an access token and an API key both present every outgoing
\* request carries the bearer of the access token; with only an API key
\* present it carries the bearer of the API key.
C26_TokenPreferred ==
  \A i \in DOMAIN calls :
    /\ Truthy(credentials.accessToken) /\ Truthy(credentials.apiKey) =>
         calls[i].headers["Authorization"] = "Bearer " \o String(credentials.accessToken)
    /\ ~Truthy(credentials.accessToken) /\ Truthy(credentials.apiKey) =>
         calls[i].headers["Authorization"] = "Bearer " \o String(credentials.apiKey)

C26_Witness ==
  /\ credentials = Creds(Str("secret"), Str("token"), Undefined)
  /\ Len(calls) = 2
  /\ calls[1].headers["Authorization"] = "Bearer token"
  /\ calls[2].headers["Authorization"] = "Bearer token"

\* The object type an activity of the given tag is created as, and the type
\* number of its link to a contact.
ActivityKind(type) ==
  IF type = "call" THEN [objects |-> "calls", typeId |-> "194"]
  ELSE IF type = "email" THEN [objects |-> "emails", typeId |-> "198"]
  ELSE [objects |-> "notes", typeId |-> "202"]

\* C27: createActivity issues one create request, to the calls endpoint for the
\* tag call, the emails endpoint for the tag email and the notes endpoint for
\* note, meeting, task and other; after the create succeeded at most one
\* association request follows, and it links the first supplied contact ID only.
C27_ActivityDispatch ==
  op = "createActivity" =>
    LET kind == ActivityKind(input.type)
        created == baseUrl(credentials) \o "/crm/v3/objects/" \o kind.objects
    IN /\ Len(calls) <= 2
       /\ Cardinality({i \in DOMAIN calls : calls[i].method = "POST"}) <= 1
       /\ calls # <<>> =>
            /\ calls[1].method = "POST"
            /\ calls[1].url = created
            /\ "properties" \in DOMAIN calls[1].body
       /\ Len(calls) = 2 =>
            /\ primary # Undefined
            /\ Truthy(input.contactIds) /\ Len(input.contactIds.items) > 0
            /\ calls[2].method = "PUT"
            /\ calls[2].url = created \o "/" \o EntityId \o "/associations/contacts/" \o
                                input.contactIds.items[1] \o "/" \o kind.typeId
       /\ (pc = "done" /\ result.state = "returned" /\ Truthy(input.contactIds)
             /\ Len(input.contactIds.items) > 0 /\ input.contactIds.items[1] # "") =>
            Len(calls) = 2

C27_Witness ==
  /\ op = "createActivity"
  /\ input.type = "meeting"
  /\ input.contactIds = Array(<<"c2", "c1">>)
  /\ Len(calls) = 2
  /\ calls[1].url = "https://api.hubapi.com/crm/v3/objects/notes"
  /\ calls[2].url = "https://api.hubapi.com/crm/v3/objects/notes/101/associations/contacts/c2/202"
  /\ pc = "done"
  /\ result.state = "returned"

C30_HasMoreIffCursor ==
  PagedAnswered /\ result.state = "returned" =>
    (result.value.hasMore = TRUE <=> result.value.nextCursor # Undefined)

\* The properties the single-object method sends for the input `item`.
singleProperties(o, item) ==
  IF o \in BatchUpdateOps THEN updateProperties(SingleOp(o), item)
  ELSE IF o = "batchCreateTickets"
  THEN createTicketProperties(
         item.fields @@ [customFields |-> item.customFields, contactId |-> Undefined,
                         companyId |-> Undefined])
  ELSE plainCreateProperties(SingleOp(o), item)

\* C29: a batch create or update of one input sends, for contacts, companies,
\* deals and tickets, the properties the single-object create or update sends
\* for that input, mapped fields and customFields alike.
C29_BatchOfOneAsSingle ==
  (op \in BatchWriteOps /\ Len(input.inputs) = 1 /\ calls # <<>>) =>
    /\ Len(calls[1].body.inputs) = 1
    /\ calls[1].body.inputs[1].properties = singleProperties(op, input.inputs[1])

\* A create or update that reads customFields has sent its request.
CustomFieldsSent == op \in CustomFieldOps /\ calls # <<>>

Entries == IF Truthy(input.customFields) THEN input.customFields.entries ELSE <<>>

\* The properties of the same input without its customFields.
MappedOnly ==
  LET bare == [input EXCEPT !.customFields = Undefined]
  IN IF op \in UpdateOps THEN updateProperties(op, bare) ELSE plainCreateProperties(op, bare)

C23_HandlerAlwaysReplies ==
  \A t \in DOMAIN worker.tasks :
    LET task == worker.tasks[t]
    IN /\ (task.reply = Pending) <=> (task.flying # <<>>)
       /\ task.reply # Pending =>
            /\ "escaped" \notin DOMAIN task.reply
            /\ "content" \in DOMAIN task.reply
            /\ Len(task.reply.content) = 1
            /\ task.result.state = "thrown" =>
                 /\ "isError" \in DOMAIN task.reply /\ task.reply.isError
                 /\ task.reply.content[1].text = "Error: " \o task.result.error.message
            /\ task.result.state = "returned" => "isError" \notin DOMAIN task.reply

C23_Witness ==
  /\ Len(worker.tasks) = 1
  /\ worker.tasks[1].op = "createTicket"
  /\ Len(worker.tasks[1].calls) = 2
  /\ worker.tasks[1].result.state = "thrown"
  /\ worker.tasks[1].result.error.name = "RateLimitError"
  /\ worker.tasks[1].reply # Pending
  /\ worker.tasks[1].reply.isError

====
